---- MODULE Spec2Model ----
(***************************************************************************)
(* Gesture-interpretation and virtual-input pipeline of the AR gallery     *)
(* (src/utils.ts: EMA, distance3D, lerp and the App component's frame      *)
(* loop predictWebcam with processLeftHand, processRightHand,              *)
(* handleCursorInteraction and resetDrag), with the start-up that leads to  *)
(* it: VisionManager.initialize, and the mount effect initVision with       *)
(* startCamera.                                                            *)
(*                                                                         *)
(* Numbers.  The program computes in floating point; the model computes    *)
(* the same expressions exactly, in scaled integers:                       *)
(*   - landmark coordinates are in thousandths of the normalized image;    *)
(*   - the left-hand smoothers (pinch, open palm, hand x) hold values in   *)
(*     units of 1/One, One = 10^MaxLeftFrames, so that a smoother updated  *)
(*     once per frame with alpha 1/5 or 1/10 never rounds (hand x is fed   *)
(*     multiples of 0.1);                                                  *)
(*   - scrollOffset is in units of 1/(20*One);                             *)
(*   - screen positions are in units of 1/CursorScale pixel,               *)
(*     CursorScale = 20 * 2^MaxLeftFrames, so that a smoother updated once *)
(*     per frame with alpha 1/2, and one blend with weight 1/20, never     *)
(*     round.                                                              *)
(* distance3D is a square root; every use of it in the program is a        *)
(* comparison of non-negative numbers, modelled on the squares.            *)
(***************************************************************************)
EXTENDS Integers, Sequences, FiniteSets, TLC

VARIABLES
  mode,                 \* useState<AppMode>
  scrollOffset,         \* useState(0)
  cursor,               \* useState<CursorState>
  lastLeftHandTime,     \* useRef<number>(0)
  leftHandX_EMA,        \* useRef(new EMA(0.1))
  leftPinchSmoother,    \* useRef(new EMA(0.2))
  leftOpenPalmSmoother, \* useRef(new EMA(0.2))
  cursorX_EMA,          \* useRef(new EMA(CURSOR_SMOOTHING))
  cursorY_EMA,          \* useRef(new EMA(CURSOR_SMOOTHING))
  isPinchingRef,        \* useRef(false)
  anchorPos,            \* useRef<{x,y} | null>: <<>> is null, <<p>> is p
  lastCursorPos,        \* useRef({x: 0, y: 0})
  isDraggingUI,         \* useRef(false)
  dragTarget,           \* useRef<Element | null>
  lastHoveredElement,   \* useRef<Element | null>
  scrollTop,            \* scrollTop of the element #month-scroll-container
  events,               \* the events dispatched (dispatchEvent) by the latest frame, in order
  now,                  \* the clock (Date.now()) read by the latest frame
  results,              \* the detector's output handed to the latest frame
  frame,                \* number of frames run so far
  leftSeenAt,           \* <<t>>: the clock of the latest frame whose results held a Left hand; <<>>: none yet
  prev,                 \* the program state on entry to the latest frame
  handLandmarker,       \* VisionManager.handLandmarker is set (not null)
  created,              \* number of backends HandLandmarker.createFromOptions has produced
  initPc,               \* where each call of VisionManager.initialize() stands
  initVisionPc,         \* where the mount effect initVision stands
  permissionError,      \* useState(false)
  isLoading,            \* useState(true)
  loop,                 \* "off": predictWebcam not registered; "running": registered or scheduled; "stopped"
  detect,               \* how the detector call of the latest frame went
  escaped,              \* an exception left the latest run of predictWebcam
  mounted,              \* the component is mounted (videoRef and canvasRef hold their elements)
  removed,              \* the elements that were removed from the document
  pinchRun,             \* lengths of the current runs of frames with a pinching Left hand
  ema,                  \* an EMA instance on its own
  emaCall,              \* the latest call on it: method, argument, returned value
  pointer,              \* the press and release events dispatched so far, summed up
  focusedId,            \* the id of the focused item, Null for none
  filteredItems         \* the ids of the items of the current list, in order

vars == <<mode, scrollOffset, cursor, lastLeftHandTime, leftHandX_EMA,
          leftPinchSmoother, leftOpenPalmSmoother, cursorX_EMA, cursorY_EMA,
          isPinchingRef, anchorPos, lastCursorPos, isDraggingUI, dragTarget,
          lastHoveredElement, scrollTop, events, now, results, frame, leftSeenAt,
          prev, handLandmarker, created, initPc, initVisionPc, permissionError,
          isLoading, loop, detect, escaped, mounted, removed, pinchRun,
          ema, emaCall, pointer, focusedId, filteredItems>>

\* The state of the gesture pipeline, of the frame loop and of the component.
frameVars == <<mode, scrollOffset, cursor, lastLeftHandTime, leftHandX_EMA,
               leftPinchSmoother, leftOpenPalmSmoother, cursorX_EMA, cursorY_EMA,
               isPinchingRef, anchorPos, lastCursorPos, isDraggingUI, dragTarget,
               lastHoveredElement, scrollTop, events, now, results, frame,
               leftSeenAt, prev, loop, detect, escaped, mounted, removed, pinchRun,
          ema, emaCall, pointer, focusedId, filteredItems>>

----------------------------------------------------------------------------
(* Bounds and units *)

\* Frames a behaviour of Spec runs.
MaxFrames == 3

\* Frames a behaviour of SpecLeft runs; also the depth to which the smoothers
\* are exact.
MaxLeftFrames == 6

\* Clock reading (ms) when the page starts; lastLeftHandTime starts at 0.
StartTime == 1000

\* Calls of VisionManager.initialize() in a behaviour; call 1 is the one the
\* mount effect initVision makes.
MaxCalls == 3
Calls == 1..MaxCalls

RECURSIVE Pow(_, _)
Pow(b, n) == IF n = 0 THEN 1 ELSE b * Pow(b, n - 1)

\* The number 1 of the left-hand smoothers.
One == Pow(10, MaxLeftFrames)

\* One pixel of the screen-space smoothers.
CursorScale == 20 * Pow(2, MaxLeftFrames)

\* window.innerWidth and window.innerHeight, in pixels.
InnerWidth == 1000
InnerHeight == 1000

Null == "null"

----------------------------------------------------------------------------
(* Math helpers *)

\* lerp(start, end, t) with t = tNum / tDen.
Lerp(start, end, tNum, tDen) == (start * (tDen - tNum) + end * tNum) \div tDen

\* new EMA(alpha), alpha = alphaNum / alphaDen; value <<>> is null.
NewEMA(alphaNum, alphaDen) ==
  [alphaNum |-> alphaNum, alphaDen |-> alphaDen, value |-> <<>>]

\* EMA.update that weighs the stored value by alpha and the new one by 1 - alpha.
EMAUpdate_WeightsSwapped(e, newValue) ==
  IF e.value = <<>>
    THEN [e EXCEPT !.value = <<newValue>>]
    ELSE [e EXCEPT !.value =
            <<((e.alphaDen - e.alphaNum) * newValue + e.alphaNum * e.value[1])
                \div e.alphaDen>>]

\* EMA.update that moves twice as far toward the new value.
EMAUpdate_Overshoots(e, newValue) ==
  IF e.value = <<>>
    THEN [e EXCEPT !.value = <<newValue>>]
    ELSE [e EXCEPT !.value =
            <<(2 * e.alphaNum * newValue + (e.alphaDen - 2 * e.alphaNum) * e.value[1])
                \div e.alphaDen>>]

\* EMA.update(newValue): the instance after the call; it returns the stored value.
EMAUpdate(e, newValue) ==
  IF e.value = <<>>
    THEN [e EXCEPT !.value = <<newValue>>]
    ELSE [e EXCEPT !.value =
            <<(e.alphaNum * newValue + (e.alphaDen - e.alphaNum) * e.value[1])
                \div e.alphaDen>>]

\* EMA.reset()
EMAReset(e) == [e EXCEPT !.value = <<>>]

\* The square of distance3D(p1, p2), in thousandths squared.
Distance3DSq(p1, p2) ==
  (p1.x - p2.x) * (p1.x - p2.x) + (p1.y - p2.y) * (p1.y - p2.y)
    + (p1.z - p2.z) * (p1.z - p2.z)

----------------------------------------------------------------------------
(* Interaction tuning *)

\* PINCH_THRESHOLD_ON = 0.04 and PINCH_THRESHOLD_OFF = 0.055, in thousandths.
PINCH_THRESHOLD_ON == 40
PINCH_THRESHOLD_OFF == 55

\* CURSOR_SMOOTHING = 0.5 = 1 / CURSOR_SMOOTHING_DEN.
CURSOR_SMOOTHING_DEN == 2

\* ANCHOR_STRENGTH = 0.95 = ANCHOR_STRENGTH_NUM / ANCHOR_STRENGTH_DEN.
ANCHOR_STRENGTH_NUM == 19
ANCHOR_STRENGTH_DEN == 20

\* The hand-loss timeout of the left hand, in ms.
IDLE_TIMEOUT_MS == 500

AppMode == {"AGGREGATE", "BROWSE", "FOCUS"}

----------------------------------------------------------------------------
(* The document: what elementFromPoint resolves and which elements the     *)
(* scroll container holds.  Two elements share the viewport: a month       *)
(* button inside #month-scroll-container on the left half and a slider on  *)
(* the right half; outside the viewport elementFromPoint returns null.     *)

Elements == {"month-button", "slider"}

ElementFromPoint(x, y) ==
  IF x < 0 \/ y < 0 \/ x > InnerWidth * CursorScale \/ y > InnerHeight * CursorScale
    THEN Null
    ELSE IF 2 * x < InnerWidth * CursorScale THEN "month-button" ELSE "slider"

\* What document.elementFromPoint yields where el is drawn: el, unless it
\* was removed from the document.
Attached(s, el) == IF el \in s.removed THEN Null ELSE el

\* scrollContainer === el || scrollContainer.contains(el), for an element of
\* the document (getElementById finds no removed container, and no container
\* contains a removed element).
ScrollContainerHolds(el) == el = "month-button"

\* The largest scrollTop of the container (the browser clamps assignments).
ScrollTopMax == 400

ClampScrollTop(v) ==
  IF v < 0 THEN 0
  ELSE IF v > ScrollTopMax * CursorScale THEN ScrollTopMax * CursorScale ELSE v

Event(type, target, primary) == [type |-> type, target |-> target, primary |-> primary]

\* s with the events es dispatched after those already dispatched this frame.
Dispatch(s, es) == [s EXCEPT !.events = s.events \o es]

----------------------------------------------------------------------------
(* The program state as one value, threaded through the handlers of a frame *)

Cur ==
  [mode |-> mode, scrollOffset |-> scrollOffset, cursor |-> cursor,
   lastLeftHandTime |-> lastLeftHandTime, leftHandX_EMA |-> leftHandX_EMA,
   leftPinchSmoother |-> leftPinchSmoother,
   leftOpenPalmSmoother |-> leftOpenPalmSmoother,
   cursorX_EMA |-> cursorX_EMA, cursorY_EMA |-> cursorY_EMA,
   isPinchingRef |-> isPinchingRef, anchorPos |-> anchorPos,
   lastCursorPos |-> lastCursorPos, isDraggingUI |-> isDraggingUI,
   dragTarget |-> dragTarget, lastHoveredElement |-> lastHoveredElement,
   scrollTop |-> scrollTop, events |-> events, escaped |-> escaped,
   removed |-> removed]

\* landmarks[i], the landmark array being 0-based in the program.
LM(landmarks, i) == landmarks[i + 1]

\* landmarks[i] is a landmark, not undefined.
Has(landmarks, i) == i + 1 <= Len(landmarks)

\* A TypeError (a property read on undefined) leaves the handler: s is the
\* state reached by then.
Throw(s) == [s EXCEPT !.escaped = TRUE]

----------------------------------------------------------------------------
(* resetDrag *)

\* resetDrag that tears the session down without dispatching the pointer-up.
ResetDrag_Silent(s) ==
  IF s.isDraggingUI /\ s.dragTarget # Null
    THEN [s EXCEPT !.isDraggingUI = FALSE, !.dragTarget = Null]
    ELSE s

\* resetDrag that clears the dragging flag and keeps the drag target.
ResetDrag_KeepTarget(s) ==
  IF s.isDraggingUI /\ s.dragTarget # Null
    THEN [Dispatch(s, <<Event("pointerup", s.dragTarget, FALSE)>>)
            EXCEPT !.isDraggingUI = FALSE]
    ELSE s

\* resetDrag that sends the pointer-up and leaves the session open.
ResetDrag_KeepsSession(s) ==
  IF s.isDraggingUI /\ s.dragTarget # Null
    THEN Dispatch(s, <<Event("pointerup", s.dragTarget, FALSE)>>)
    ELSE s

ResetDrag(s) ==
  IF s.isDraggingUI /\ s.dragTarget # Null
    THEN [Dispatch(s, <<Event("pointerup", s.dragTarget, FALSE)>>)
            EXCEPT !.isDraggingUI = FALSE, !.dragTarget = Null]
    ELSE s

----------------------------------------------------------------------------
(* processLeftHand *)

\* pinchDist < 0.05 ? 1 : 0
IsPinchingRaw(landmarks) ==
  IF Distance3DSq(LM(landmarks, 4), LM(landmarks, 8)) < 50 * 50 THEN One ELSE 0

\* dTip > dPip * 1.1 for the finger with tip landmark tip and mid-joint pip
FingerExtended(landmarks, tip, pip) ==
  100 * Distance3DSq(LM(landmarks, 0), LM(landmarks, tip))
    > 121 * Distance3DSq(LM(landmarks, 0), LM(landmarks, pip))

ExtendedCount(landmarks) ==
  LET tips == <<8, 12, 16, 20>>
      pips == <<6, 10, 14, 18>>
  IN Cardinality({i \in 1..4 : FingerExtended(landmarks, tips[i], pips[i])})

\* The open-palm test that takes two extended fingers for an open palm.
IsOpenRaw_TwoFingers(landmarks) == IF ExtendedCount(landmarks) >= 2 THEN One ELSE 0

\* extendedCount >= 3 ? 1 : 0
IsOpenRaw(landmarks) == IF ExtendedCount(landmarks) >= 3 THEN One ELSE 0

\* The activation test with its threshold at 0.7.
IsActive_High(val) == 10 * val > 7 * One

\* pinchVal > 0.6, openVal > 0.6
IsActive(val) == 10 * val > 6 * One

\* pinchVal < 0.4
PinchReleased(pinchVal) == 10 * pinchVal < 4 * One

\* DecideMode whose release rule ignores the open palm.
DecideMode_ReleaseToAggregate(currentMode, isPinchActive, pinchVal, isOpenActive) ==
  IF isPinchActive THEN "FOCUS"
  ELSE IF currentMode = "FOCUS" THEN "AGGREGATE"
  ELSE IF isOpenActive THEN "BROWSE"
  ELSE "AGGREGATE"

\* DecideMode that tests the open palm before the pinch.
DecideMode_PalmFirst(currentMode, isPinchActive, pinchVal, isOpenActive) ==
  IF isOpenActive THEN "BROWSE"
  ELSE IF isPinchActive THEN "FOCUS"
  ELSE "AGGREGATE"

\* The first setMode updater of processLeftHand.
DecideMode(currentMode, isPinchActive, pinchVal, isOpenActive) ==
  IF isPinchActive THEN "FOCUS"
  ELSE IF currentMode = "FOCUS" /\ PinchReleased(pinchVal)
    THEN (IF isOpenActive THEN "BROWSE" ELSE "AGGREGATE")
  ELSE IF isOpenActive THEN "BROWSE"
  ELSE "AGGREGATE"

\* 1 - middleMCP.x
ScreenX(landmarks) == One - LM(landmarks, 9).x * (One \div 1000)

\* (smoothedX - 0.5) * 0.15, in units of 1/(20*One)
ScrollStep(smoothedX) == (smoothedX - One \div 2) * 3

\* processLeftHand whose scroll step tests the mode held on entry instead of
\* the mode just decided.
ProcessLeftHand_ScrollOnEntryMode(s, landmarks) ==
  IF s.isDraggingUI THEN s
  ELSE
    LET pinchSm == EMAUpdate(s.leftPinchSmoother, IsPinchingRaw(landmarks))
        pinchVal == pinchSm.value[1]
        openSm == EMAUpdate(s.leftOpenPalmSmoother, IsOpenRaw(landmarks))
        openVal == openSm.value[1]
        newMode == DecideMode(s.mode, IsActive(pinchVal), pinchVal, IsActive(openVal))
        xSm == EMAUpdate(s.leftHandX_EMA, ScreenX(landmarks))
    IN [s EXCEPT !.leftPinchSmoother = pinchSm,
                 !.leftOpenPalmSmoother = openSm,
                 !.leftHandX_EMA = xSm,
                 !.mode = newMode,
                 !.scrollOffset = IF s.mode = "BROWSE"
                                    THEN @ + ScrollStep(xSm.value[1]) ELSE @]

\* processLeftHand without the isDraggingUI gate.
ProcessLeftHand_NoGate(s, landmarks) ==
  LET pinchSm == EMAUpdate(s.leftPinchSmoother, IsPinchingRaw(landmarks))
      pinchVal == pinchSm.value[1]
      openSm == EMAUpdate(s.leftOpenPalmSmoother, IsOpenRaw(landmarks))
      openVal == openSm.value[1]
      newMode == DecideMode(s.mode, IsActive(pinchVal), pinchVal, IsActive(openVal))
      xSm == EMAUpdate(s.leftHandX_EMA, ScreenX(landmarks))
  IN [s EXCEPT !.leftPinchSmoother = pinchSm,
               !.leftOpenPalmSmoother = openSm,
               !.leftHandX_EMA = xSm,
               !.mode = newMode,
               !.scrollOffset = IF newMode = "BROWSE"
                                  THEN @ + ScrollStep(xSm.value[1]) ELSE @]

\* distance3D reads .x of both points: with thumb tip or index tip missing
\* it throws before anything is written; with a fingertip or mid-joint of the
\* extension loop missing it throws after the pinch smoother was updated.
ProcessLeftHand(s, landmarks) ==
  IF s.isDraggingUI THEN s
  ELSE IF ~Has(landmarks, 4) \/ ~Has(landmarks, 8) THEN Throw(s)
  ELSE IF \E k \in {6, 10, 14, 18, 12, 16, 20} : ~Has(landmarks, k)
    THEN Throw([s EXCEPT !.leftPinchSmoother =
                           EMAUpdate(@, IsPinchingRaw(landmarks))])
  ELSE
    LET pinchSm == EMAUpdate(s.leftPinchSmoother, IsPinchingRaw(landmarks))
        pinchVal == pinchSm.value[1]
        isPinchActive == IsActive(pinchVal)
        openSm == EMAUpdate(s.leftOpenPalmSmoother, IsOpenRaw(landmarks))
        openVal == openSm.value[1]
        isOpenActive == IsActive(openVal)
        newMode == DecideMode(s.mode, isPinchActive, pinchVal, isOpenActive)
        xSm == EMAUpdate(s.leftHandX_EMA, ScreenX(landmarks))
        smoothedX == xSm.value[1]
    IN [s EXCEPT !.leftPinchSmoother = pinchSm,
                 !.leftOpenPalmSmoother = openSm,
                 !.leftHandX_EMA = xSm,
                 !.mode = newMode,
                 !.scrollOffset = IF newMode = "BROWSE"
                                    THEN @ + ScrollStep(smoothedX) ELSE @]

----------------------------------------------------------------------------
(* handleCursorInteraction *)

\* The hover simulation that enters the new element before it leaves the
\* old one.
HoverSimulation_EnterFirst(s, element) ==
  LET old == s.lastHoveredElement
      leave == IF element # old /\ old # Null
                 THEN <<Event("mouseout", old, FALSE), Event("pointerout", old, FALSE)>>
                 ELSE <<>>
      enter == IF element # old /\ element # Null
                 THEN <<Event("mouseover", element, FALSE),
                        Event("pointerover", element, FALSE)>>
                 ELSE <<>>
      move == IF element # Null
                THEN <<Event("pointermove", element, FALSE)>> ELSE <<>>
  IN [Dispatch(s, enter \o leave \o move)
        EXCEPT !.lastHoveredElement = IF element # old THEN element ELSE @]

\* Hover simulation and the move on the element under the cursor.
HoverSimulation(s, element) ==
  LET old == s.lastHoveredElement
      leave == IF element # old /\ old # Null
                 THEN <<Event("mouseout", old, FALSE), Event("pointerout", old, FALSE)>>
                 ELSE <<>>
      enter == IF element # old /\ element # Null
                 THEN <<Event("mouseover", element, FALSE),
                        Event("pointerover", element, FALSE)>>
                 ELSE <<>>
      move == IF element # Null
                THEN <<Event("pointermove", element, FALSE)>> ELSE <<>>
  IN [Dispatch(s, leave \o enter \o move)
        EXCEPT !.lastHoveredElement = IF element # old THEN element ELSE @]

\* Click / drag logic whose drag move goes to the element under the cursor.
ClickDragLogic_MoveUnderCursor(s, element, deltaY, isDown, wasDown) ==
  IF isDown /\ ~wasDown
    THEN IF element # Null
           THEN [Dispatch(s, <<Event("pointerdown", element, TRUE),
                               Event("mousedown", element, FALSE)>>)
                   EXCEPT !.isDraggingUI = TRUE, !.dragTarget = element]
           ELSE s
  ELSE IF isDown /\ wasDown /\ s.isDraggingUI /\ s.dragTarget # Null
    THEN [Dispatch(s, IF element # Null
                        THEN <<Event("pointermove", element, TRUE)>> ELSE <<>>)
            EXCEPT !.scrollTop = IF ScrollContainerHolds(s.dragTarget) /\ s.dragTarget \notin s.removed
                                   THEN ClampScrollTop(@ - deltaY) ELSE @]
  ELSE IF ~isDown /\ wasDown /\ s.isDraggingUI /\ s.dragTarget # Null
    THEN [Dispatch(s, <<Event("pointerup", s.dragTarget, TRUE),
                        Event("mouseup", s.dragTarget, FALSE),
                        Event("click", s.dragTarget, FALSE)>>)
            EXCEPT !.isDraggingUI = FALSE, !.dragTarget = Null]
  ELSE s

\* Click / drag logic whose release goes to the element under the cursor.
ClickDragLogic_ReleaseUnderCursor(s, element, deltaY, isDown, wasDown) ==
  IF isDown /\ ~wasDown
    THEN IF element # Null
           THEN [Dispatch(s, <<Event("pointerdown", element, TRUE),
                               Event("mousedown", element, FALSE)>>)
                   EXCEPT !.isDraggingUI = TRUE, !.dragTarget = element]
           ELSE s
  ELSE IF isDown /\ wasDown /\ s.isDraggingUI /\ s.dragTarget # Null
    THEN [Dispatch(s, <<Event("pointermove", s.dragTarget, TRUE)>>)
            EXCEPT !.scrollTop = IF ScrollContainerHolds(s.dragTarget) /\ s.dragTarget \notin s.removed
                                   THEN ClampScrollTop(@ - deltaY) ELSE @]
  ELSE IF ~isDown /\ wasDown /\ s.isDraggingUI /\ s.dragTarget # Null
    THEN [Dispatch(s, IF element # Null
                        THEN <<Event("pointerup", element, TRUE),
                               Event("mouseup", element, FALSE),
                               Event("click", element, FALSE)>>
                        ELSE <<>>)
            EXCEPT !.isDraggingUI = FALSE, !.dragTarget = Null]
  ELSE s

\* Click / drag logic that leaves a drag target alone once it is no longer
\* in the document.
ClickDragLogic_SkipRemoved(s, element, deltaY, isDown, wasDown) ==
  IF isDown /\ ~wasDown
    THEN IF element # Null
           THEN [Dispatch(s, <<Event("pointerdown", element, TRUE),
                               Event("mousedown", element, FALSE)>>)
                   EXCEPT !.isDraggingUI = TRUE, !.dragTarget = element]
           ELSE s
  ELSE IF s.dragTarget \in s.removed THEN s
  ELSE IF isDown /\ wasDown /\ s.isDraggingUI /\ s.dragTarget # Null
    THEN [Dispatch(s, <<Event("pointermove", s.dragTarget, TRUE)>>)
            EXCEPT !.scrollTop = IF ScrollContainerHolds(s.dragTarget)
                                   THEN ClampScrollTop(@ - deltaY) ELSE @]
  ELSE IF ~isDown /\ wasDown /\ s.isDraggingUI /\ s.dragTarget # Null
    THEN [Dispatch(s, <<Event("pointerup", s.dragTarget, TRUE),
                        Event("mouseup", s.dragTarget, FALSE),
                        Event("click", s.dragTarget, FALSE)>>)
            EXCEPT !.isDraggingUI = FALSE, !.dragTarget = Null]
  ELSE s

\* Click / drag logic without the falling edge.
ClickDragLogic_NoFallingEdge(s, element, deltaY, isDown, wasDown) ==
  IF isDown /\ ~wasDown
    THEN IF element # Null
           THEN [Dispatch(s, <<Event("pointerdown", element, TRUE),
                               Event("mousedown", element, FALSE)>>)
                   EXCEPT !.isDraggingUI = TRUE, !.dragTarget = element]
           ELSE s
  ELSE IF isDown /\ wasDown /\ s.isDraggingUI /\ s.dragTarget # Null
    THEN [Dispatch(s, <<Event("pointermove", s.dragTarget, TRUE)>>)
            EXCEPT !.scrollTop = IF ScrollContainerHolds(s.dragTarget) /\ s.dragTarget \notin s.removed
                                   THEN ClampScrollTop(@ - deltaY) ELSE @]
  ELSE s

\* Click / drag logic: rising edge, holding, falling edge.
ClickDragLogic(s, element, deltaY, isDown, wasDown) ==
  IF isDown /\ ~wasDown
    THEN IF element # Null
           THEN [Dispatch(s, <<Event("pointerdown", element, TRUE),
                               Event("mousedown", element, FALSE)>>)
                   EXCEPT !.isDraggingUI = TRUE, !.dragTarget = element]
           ELSE s
  ELSE IF isDown /\ wasDown /\ s.isDraggingUI /\ s.dragTarget # Null
    THEN [Dispatch(s, <<Event("pointermove", s.dragTarget, TRUE)>>)
            EXCEPT !.scrollTop = IF ScrollContainerHolds(s.dragTarget) /\ s.dragTarget \notin s.removed
                                   THEN ClampScrollTop(@ - deltaY) ELSE @]
  ELSE IF ~isDown /\ wasDown /\ s.isDraggingUI /\ s.dragTarget # Null
    THEN [Dispatch(s, <<Event("pointerup", s.dragTarget, TRUE),
                        Event("mouseup", s.dragTarget, FALSE),
                        Event("click", s.dragTarget, FALSE)>>)
            EXCEPT !.isDraggingUI = FALSE, !.dragTarget = Null]
  ELSE s

\* handleCursorInteraction that runs the click / drag logic before the hover
\* simulation.
HandleCursorInteraction_ClickFirst(s, x, y, deltaY, isDown, wasDown) ==
  LET element == Attached(s, ElementFromPoint(x, y))
  IN HoverSimulation(ClickDragLogic(s, element, deltaY, isDown, wasDown), element)

HandleCursorInteraction(s, x, y, deltaY, isDown, wasDown) ==
  LET element == Attached(s, ElementFromPoint(x, y))
  IN ClickDragLogic(HoverSimulation(s, element), element, deltaY, isDown, wasDown)

----------------------------------------------------------------------------
(* processRightHand *)

\* (1 - indexTip.x) * window.innerWidth and indexTip.y * window.innerHeight
RawX(landmarks) == (1000 - LM(landmarks, 8).x) * ((InnerWidth * CursorScale) \div 1000)
RawY(landmarks) == LM(landmarks, 8).y * ((InnerHeight * CursorScale) \div 1000)

\* PinchHysteresis with the release test made inclusive (>= OFF).
PinchHysteresis_InclusiveOff(wasPinching, pinchDistSq) ==
  IF pinchDistSq < PINCH_THRESHOLD_ON * PINCH_THRESHOLD_ON THEN TRUE
  ELSE IF pinchDistSq >= PINCH_THRESHOLD_OFF * PINCH_THRESHOLD_OFF THEN FALSE
  ELSE wasPinching

\* Pinch detection with hysteresis: isPinchingNow from wasPinching and pinchDist.
PinchHysteresis(wasPinching, pinchDistSq) ==
  IF pinchDistSq < PINCH_THRESHOLD_ON * PINCH_THRESHOLD_ON THEN TRUE
  ELSE IF pinchDistSq > PINCH_THRESHOLD_OFF * PINCH_THRESHOLD_OFF THEN FALSE
  ELSE wasPinching

\* Anchor logic that never captures on the rising edge.
AnchorLogic_NoCapture(anchor, smoothX, smoothY, isPinchingNow, wasPinching) ==
  IF ~isPinchingNow /\ wasPinching THEN <<>> ELSE anchor

\* The anchor after the rising-edge capture and the release-edge clear.
AnchorLogic(anchor, smoothX, smoothY, isPinchingNow, wasPinching) ==
  LET captured == IF isPinchingNow /\ ~wasPinching
                    THEN <<[x |-> smoothX, y |-> smoothY]>> ELSE anchor
  IN IF isPinchingNow /\ captured # <<>> THEN captured
     ELSE IF ~isPinchingNow /\ wasPinching THEN <<>>
     ELSE captured

\* OutputPos with the blend weights swapped: lerp(anchor, smooth, ANCHOR_STRENGTH).
OutputPos_WeightsSwapped(anchor, smoothX, smoothY, isPinchingNow) ==
  IF isPinchingNow /\ anchor # <<>>
    THEN [x |-> Lerp(anchor[1].x, smoothX, ANCHOR_STRENGTH_NUM, ANCHOR_STRENGTH_DEN),
          y |-> Lerp(anchor[1].y, smoothY, ANCHOR_STRENGTH_NUM, ANCHOR_STRENGTH_DEN)]
    ELSE [x |-> smoothX, y |-> smoothY]

\* The reported position: blended with the anchor while pinching.
OutputPos(anchor, smoothX, smoothY, isPinchingNow) ==
  IF isPinchingNow /\ anchor # <<>>
    THEN [x |-> Lerp(anchor[1].x, smoothX,
                     ANCHOR_STRENGTH_DEN - ANCHOR_STRENGTH_NUM, ANCHOR_STRENGTH_DEN),
          y |-> Lerp(anchor[1].y, smoothY,
                     ANCHOR_STRENGTH_DEN - ANCHOR_STRENGTH_NUM, ANCHOR_STRENGTH_DEN)]
    ELSE [x |-> smoothX, y |-> smoothY]

\* lastClickTime stamped on every pinching frame.
LastClickTime_WhilePinching(prevTime, isPinchingNow, wasPinching, t) ==
  IF isPinchingNow THEN t ELSE prevTime

\* (isPinchingNow && !wasPinching) ? Date.now() : prev.lastClickTime
LastClickTime(prevTime, isPinchingNow, wasPinching, t) ==
  IF isPinchingNow /\ ~wasPinching THEN t ELSE prevTime

\* t is the value of Date.now() in the frame.  With the index tip missing
\* indexTip.x throws before anything is written.
ProcessRightHand(s, landmarks, t) ==
  IF ~Has(landmarks, 8) THEN Throw(s)
  ELSE
  LET xSm == EMAUpdate(s.cursorX_EMA, RawX(landmarks))
      ySm == EMAUpdate(s.cursorY_EMA, RawY(landmarks))
      smoothX == xSm.value[1]
      smoothY == ySm.value[1]
      wasPinching == s.isPinchingRef
      isPinchingNow ==
        PinchHysteresis(wasPinching, Distance3DSq(LM(landmarks, 4), LM(landmarks, 8)))
      anchor == AnchorLogic(s.anchorPos, smoothX, smoothY, isPinchingNow, wasPinching)
      out == OutputPos(anchor, smoothX, smoothY, isPinchingNow)
      deltaY == out.y - s.lastCursorPos.y
      s1 == [s EXCEPT !.cursorX_EMA = xSm,
                      !.cursorY_EMA = ySm,
                      !.isPinchingRef = isPinchingNow,
                      !.anchorPos = anchor,
                      !.lastCursorPos = out,
                      !.cursor = [x |-> out.x, y |-> out.y, active |-> TRUE,
                                  clicking |-> isPinchingNow,
                                  lastClickTime |->
                                    LastClickTime(s.cursor.lastClickTime,
                                                  isPinchingNow, wasPinching, t)]]
  IN HandleCursorInteraction(s1, out.x, out.y, deltaY, isPinchingNow, wasPinching)

----------------------------------------------------------------------------
(* predictWebcam: one frame of the gesture loop *)

RECURSIVE ProcessHands(_, _, _, _)
\* The loop over results.landmarks, from hand i on.
ProcessHands(s, res, i, t) ==
  IF i > Len(res) \/ s.escaped THEN s
  ELSE IF res[i].handedness = "Left"
    THEN ProcessHands(ProcessLeftHand(s, res[i].landmarks), res, i + 1, t)
  ELSE IF res[i].handedness = "Right"
    THEN ProcessHands(ProcessRightHand(s, res[i].landmarks, t), res, i + 1, t)
  ELSE ProcessHands(s, res, i + 1, t)

HandFound(res, label) == \E i \in 1..Len(res) : res[i].handedness = label

\* The timeout test made inclusive (>= 500).
IdleTimedOut_AtLeast(t, lastLeft) == t - lastLeft >= IDLE_TIMEOUT_MS

\* The idle test against a threshold of 200 ms.
IdleTimedOut_Short(t, lastLeft) == t - lastLeft > 200

\* Date.now() - lastLeftHandTime.current > 500
IdleTimedOut(t, lastLeft) == t - lastLeft > IDLE_TIMEOUT_MS

\* setMode(prev => prev !== AGGREGATE ? AGGREGATE : prev)
\* The idle timeout that also resets the Left hand's smoothers.
FallBack_ResetSmoothers(s) ==
  [s EXCEPT !.mode = IF @ # "AGGREGATE" THEN "AGGREGATE" ELSE @,
            !.leftPinchSmoother = EMAReset(@),
            !.leftOpenPalmSmoother = EMAReset(@),
            !.leftHandX_EMA = EMAReset(@)]

FallBack(s) == [s EXCEPT !.mode = IF @ # "AGGREGATE" THEN "AGGREGATE" ELSE @]

\* The hands branch without the forced release when no Right hand is found.
HandsBranch_KeepDrag(s, res, t) ==
  LET s1 == ProcessHands(s, res, 1, t)
      leftHandFound == HandFound(res, "Left")
      rightHandFound == HandFound(res, "Right")
      s2 == IF leftHandFound THEN [s1 EXCEPT !.lastLeftHandTime = t] ELSE s1
      s3 == IF ~leftHandFound /\ IdleTimedOut(t, s2.lastLeftHandTime)
              THEN FallBack(s2) ELSE s2
  IN IF ~rightHandFound
       THEN [s3 EXCEPT !.cursor.active = FALSE, !.cursor.clicking = FALSE]
       ELSE s3

\* The hands branch without the idle timeout.
HandsBranch_NoFallBack(s, res, t) ==
  LET s1 == ProcessHands(s, res, 1, t)
      leftHandFound == HandFound(res, "Left")
      rightHandFound == HandFound(res, "Right")
      s2 == IF leftHandFound THEN [s1 EXCEPT !.lastLeftHandTime = t] ELSE s1
  IN IF ~rightHandFound
       THEN ResetDrag([s2 EXCEPT !.cursor.active = FALSE, !.cursor.clicking = FALSE])
       ELSE s2

\* The hands branch that also ends the right-hand pinch when no Right hand
\* is found.
HandsBranch_EndsPinch(s, res, t) ==
  LET s1 == ProcessHands(s, res, 1, t)
      leftHandFound == HandFound(res, "Left")
      rightHandFound == HandFound(res, "Right")
      s2 == IF leftHandFound THEN [s1 EXCEPT !.lastLeftHandTime = t] ELSE s1
      s3 == IF ~leftHandFound /\ IdleTimedOut(t, s2.lastLeftHandTime)
              THEN FallBack(s2) ELSE s2
  IN IF s1.escaped THEN s1
     ELSE IF ~rightHandFound
       THEN ResetDrag([s3 EXCEPT !.cursor.active = FALSE, !.cursor.clicking = FALSE,
                                 !.isPinchingRef = FALSE, !.anchorPos = <<>>])
       ELSE s3

\* The branch taken when results hold at least one hand.
HandsBranch(s, res, t) ==
  LET s1 == ProcessHands(s, res, 1, t)
      leftHandFound == HandFound(res, "Left")
      rightHandFound == HandFound(res, "Right")
      s2 == IF leftHandFound THEN [s1 EXCEPT !.lastLeftHandTime = t] ELSE s1
      s3 == IF ~leftHandFound /\ IdleTimedOut(t, s2.lastLeftHandTime)
              THEN FallBack(s2) ELSE s2
  IN IF s1.escaped THEN s1
     ELSE IF ~rightHandFound
       THEN ResetDrag([s3 EXCEPT !.cursor.active = FALSE, !.cursor.clicking = FALSE])
       ELSE s3

\* The no-hands branch that leaves the cursor active.
NoHandsBranch_KeepActive(s, t) ==
  LET s1 == IF IdleTimedOut(t, s.lastLeftHandTime) THEN FallBack(s) ELSE s
  IN ResetDrag(s1)

\* The no-hands branch that also ends the right-hand pinch.
NoHandsBranch_EndsPinch(s, t) ==
  LET s1 == IF IdleTimedOut(t, s.lastLeftHandTime) THEN FallBack(s) ELSE s
  IN ResetDrag([s1 EXCEPT !.cursor.active = FALSE, !.isPinchingRef = FALSE])

\* The branch taken when there are no results or no hands.
NoHandsBranch(s, t) ==
  LET s1 == IF IdleTimedOut(t, s.lastLeftHandTime) THEN FallBack(s) ELSE s
  IN ResetDrag([s1 EXCEPT !.cursor.active = FALSE])

\* The body of predictWebcam from the test of results on: res is
\* results.landmarks with the handedness labels, <<>> when results is
\* undefined or holds no hand.
PredictWebcam(s, res, t) ==
  LET s0 == [s EXCEPT !.events = <<>>, !.escaped = FALSE]
  IN IF Len(res) > 0 THEN HandsBranch(s0, res, t) ELSE NoHandsBranch(s0, t)

\* How the detector call of a frame can go: it returns hands (possibly
\* none), it throws, or it is skipped because video.currentTime is not yet
\* above 0.
DetectOutcomes == {"returned", "threw", "skipped"}

\* The detection step with the try / catch left out: a throw escapes.
DetectForVideo_Uncaught(outcome, hands) ==
  [escaped |-> outcome = "threw",
   results |-> IF outcome = "returned" THEN hands ELSE <<>>]

\* try { if (video.currentTime > 0) results = detectForVideo(...) } catch { warn }
\* escaped: an exception leaves predictWebcam; results: what the rest of the
\* frame sees.
DetectForVideo(outcome, hands) ==
  [escaped |-> FALSE,
   results |-> IF outcome = "returned" THEN hands ELSE <<>>]

----------------------------------------------------------------------------
(* The detector's output: hands of 21 landmarks with a handedness label.   *)
(* A hand is built from the landmarks the program reads: wrist (0), thumb  *)
(* tip (4), index tip (8), middle-finger base (9), the other fingertips    *)
(* (12, 16, 20) and the mid-joints (6, 10, 14, 18).                        *)

Point(x, y, z) == [x |-> x, y |-> y, z |-> z]

\* Horizontal offset of finger f (1 index .. 4 pinky) from the wrist.
FingerOffset(f) == 40 * f - 100

\* wrist, index tip, thumb tip = index tip + thumbD, which of the middle,
\* ring and little fingers are extended, and the x of the middle-finger base.
HandLandmarks(wrist, indexTip, thumbD, extended, mcpX) ==
  [i \in 1..21 |->
     LET k == i - 1
     IN IF k = 0 THEN wrist
        ELSE IF k = 4
          THEN Point(indexTip.x + thumbD[1], indexTip.y + thumbD[2], indexTip.z + thumbD[3])
        ELSE IF k = 8 THEN indexTip
        ELSE IF k = 9 THEN Point(mcpX, wrist.y - 100, 0)
        ELSE IF k \in {6, 10, 14, 18}
          THEN Point(wrist.x + FingerOffset((k - 2) \div 4), wrist.y - 200, 0)
        ELSE IF k \in {12, 16, 20}
          THEN Point(wrist.x + FingerOffset(k \div 4),
                     IF (k \div 4) \in extended THEN wrist.y - 400 ELSE wrist.y - 150, 0)
        ELSE wrist]

Hand(label, landmarks) == [handedness |-> label, landmarks |-> landmarks]

LeftWrist == Point(500, 800, 0)

\* Left-hand poses: a pinch with the fingers curled (thumb-index distance
\* 0.03), an open palm (four fingers extended), a pinch with three fingers
\* extended, and two fingers extended with thumb-index distance exactly 0.05.
LeftPinch ==
  Hand("Left", HandLandmarks(LeftWrist, Point(440, 650, 0), <<18, 24, 0>>, {}, 500))
LeftOpen ==
  Hand("Left", HandLandmarks(LeftWrist, Point(440, 400, 0), <<48, 0, 64>>, {3, 4, 5}, 300))
LeftPinchOpen ==
  Hand("Left", HandLandmarks(LeftWrist, Point(440, 650, 0), <<0, 18, 24>>, {3, 4, 5}, 300))
LeftTwo ==
  Hand("Left", HandLandmarks(LeftWrist, Point(440, 400, 0), <<30, 40, 0>>, {3}, 700))

LeftPoses == {LeftPinch, LeftOpen, LeftPinchOpen, LeftTwo}

\* Right-hand poses: the index tip over the month button (A), over the
\* slider (B), over the edge of the month button next to the border of the
\* viewport (Edge) or outside the viewport (Off), with thumb-index distance
\* 0.03, 0.04, 0.055 or 0.08.
RightWrist == Point(500, 900, 0)

ThumbAt(d) ==
  IF d = 30 THEN <<18, 24, 0>>
  ELSE IF d = 40 THEN <<24, 0, 32>>
  ELSE IF d = 55 THEN <<0, 33, 44>>
  ELSE <<48, 64, 0>>

IndexAt(place) ==
  IF place = "A" THEN Point(510, 500, 0)
  ELSE IF place = "B" THEN Point(10, 300, 0)
  ELSE IF place = "Edge" THEN Point(990, 500, 0)
  ELSE Point(1100, 500, 0)

RightHand(place, d) ==
  Hand("Right", HandLandmarks(RightWrist, IndexAt(place), ThumbAt(d), {3, 4, 5}, 500))

RightPoses ==
  {RightHand(place, d) : place \in {"A", "B", "Off"}, d \in {30, 80}}
    \cup {RightHand("A", d) : d \in {40, 55}}
    \cup {RightHand("Edge", 80)}

\* Milliseconds between two frames.
FrameGaps == {250}

----------------------------------------------------------------------------
(* The state machine *)

\* The state after construction, the mode and the two gesture smoothers of
\* the left hand apart.
InitRest ==
  /\ scrollOffset = 0
  /\ cursor = [x |-> 0, y |-> 0, active |-> FALSE, clicking |-> FALSE, lastClickTime |-> 0]
  /\ lastLeftHandTime = 0
  /\ leftHandX_EMA = NewEMA(1, 10)
  /\ cursorX_EMA = NewEMA(1, CURSOR_SMOOTHING_DEN)
  /\ cursorY_EMA = NewEMA(1, CURSOR_SMOOTHING_DEN)
  /\ isPinchingRef = FALSE
  /\ anchorPos = <<>>
  /\ lastCursorPos = [x |-> 0, y |-> 0]
  /\ isDraggingUI = FALSE
  /\ dragTarget = Null
  /\ lastHoveredElement = Null
  /\ scrollTop = 0
  /\ events = <<>>
  /\ now = StartTime
  /\ results = <<>>
  /\ frame = 0
  /\ leftSeenAt = <<>>
  /\ handLandmarker = FALSE
  /\ created = 0
  /\ initPc = [c \in Calls |-> "idle"]
  /\ initVisionPc = "initialize"
  /\ permissionError = FALSE
  /\ isLoading = TRUE
  /\ loop = "off"
  /\ detect = "none"
  /\ escaped = FALSE
  /\ mounted = TRUE
  /\ removed = {}
  /\ pinchRun = [shown |-> 0, classified |-> 0]
  /\ emaCall = [method |-> "constructor", arg |-> 0, returned |-> 0, n |-> 0,
                run |-> 0]
  /\ pointer = [down |-> {}, last |-> Null, presses |-> 0, releasing |-> Null,
                balanced |-> TRUE]
  /\ focusedId = Null
  /\ filteredItems = <<>>

Init ==
  /\ mode = "AGGREGATE"
  /\ leftPinchSmoother = NewEMA(1, 5)
  /\ leftOpenPalmSmoother = NewEMA(1, 5)
  /\ ema = NewEMA(1, 5)
  /\ InitRest
  /\ prev = Cur

\* Observer of the press and release events: down holds the elements that
\* received a pointer-down and no pointer-up since, last is the target of the
\* latest pointer-down, presses counts the pointer-downs, releasing is the
\* element whose release sequence (pointer-up, mouse-up, click) is under way
\* in the frame, and balanced says that so far every pointer-up went to an
\* element of down and every mouse-up and click to the element of the
\* release sequence under way.
TrackEvent(p, e) ==
  IF e.type = "pointerdown"
    THEN [p EXCEPT !.down = @ \cup {e.target}, !.last = e.target,
                   !.presses = @ + 1, !.releasing = Null]
  ELSE IF e.type = "pointerup"
    THEN [p EXCEPT !.balanced = @ /\ e.target \in p.down,
                   !.down = @ \ {e.target}, !.releasing = e.target]
  ELSE IF e.type \in {"mouseup", "click"}
    THEN [p EXCEPT !.balanced = @ /\ e.target = p.releasing]
  ELSE p

RECURSIVE Track(_, _, _)
Track(p, es, i) ==
  IF i > Len(es) THEN p ELSE Track(TrackEvent(p, es[i]), es, i + 1)

\* Observer of a run of frames: shown counts the consecutive processed
\* frames whose Left hand has thumb and index tip closer than 0.05,
\* classified those of them in which processLeftHand got past its
\* isDraggingUI gate (the gate sees the drag flag as it stands when the
\* Left hand's turn comes: before the frame if listed first, after the
\* Right hand otherwise).
PinchRun(run, res, draggingBefore, draggingAfter, threw) ==
  LET pinchAt(i) == /\ res[i].handedness = "Left"
                    /\ Has(res[i].landmarks, 4) /\ Has(res[i].landmarks, 8)
                    /\ IsPinchingRaw(res[i].landmarks) = One
      shown == \E i \in 1..Len(res) : pinchAt(i)
      classified == /\ ~threw
                    /\ \E i \in 1..Len(res) :
                         pinchAt(i) /\ ~(IF i = 1 THEN draggingBefore ELSE draggingAfter)
  IN [shown |-> IF shown THEN run.shown + 1 ELSE 0,
      classified |-> IF classified THEN run.classified + 1 ELSE 0]

\* One run of predictWebcam, gap ms after the previous one, in which the
\* detector call goes as outcome says and reports hands (the caller sets
\* results to what the frame sees).  The run is a no-op that schedules
\* nothing when the backend is missing or an exception escapes.
RunFrame(outcome, hands, gap, maxFrames) ==
  /\ loop = "running"
  /\ frame < maxFrames
  /\ mounted /\ handLandmarker
  /\ detect' = outcome
  /\ \E d \in {DetectForVideo(outcome, hands)} :
       IF ~d.escaped
         THEN /\ \E s \in {PredictWebcam(Cur, d.results, now + gap)} :
                   /\ mode' = s.mode
                   /\ scrollOffset' = s.scrollOffset
                   /\ cursor' = s.cursor
                   /\ lastLeftHandTime' = s.lastLeftHandTime
                   /\ leftHandX_EMA' = s.leftHandX_EMA
                   /\ leftPinchSmoother' = s.leftPinchSmoother
                   /\ leftOpenPalmSmoother' = s.leftOpenPalmSmoother
                   /\ cursorX_EMA' = s.cursorX_EMA
                   /\ cursorY_EMA' = s.cursorY_EMA
                   /\ isPinchingRef' = s.isPinchingRef
                   /\ anchorPos' = s.anchorPos
                   /\ lastCursorPos' = s.lastCursorPos
                   /\ isDraggingUI' = s.isDraggingUI
                   /\ dragTarget' = s.dragTarget
                   /\ lastHoveredElement' = s.lastHoveredElement
                   /\ scrollTop' = s.scrollTop
                   /\ events' = s.events
                   /\ escaped' = s.escaped
                   /\ loop' = IF s.escaped THEN "stopped" ELSE "running"
                   /\ pointer' = Track([pointer EXCEPT !.releasing = Null], s.events, 1)
                   /\ pinchRun' = PinchRun(pinchRun, d.results, isDraggingUI,
                                           s.isDraggingUI, s.escaped)
              /\ leftSeenAt' = IF \E i \in 1..Len(d.results) : d.results[i].handedness = "Left"
                                 THEN <<now + gap>> ELSE leftSeenAt
              /\ frame' = frame + 1
              /\ prev' = Cur
         ELSE /\ UNCHANGED <<mode, scrollOffset, cursor, lastLeftHandTime,
                             leftHandX_EMA, leftPinchSmoother, leftOpenPalmSmoother,
                             cursorX_EMA, cursorY_EMA, isPinchingRef, anchorPos,
                             lastCursorPos, isDraggingUI, dragTarget,
                             lastHoveredElement, scrollTop, events, leftSeenAt,
                             frame, prev, pinchRun, pointer>>
              /\ escaped' = TRUE
              /\ loop' = "stopped"
  /\ now' = now + gap
  /\ UNCHANGED <<handLandmarker, created, initPc, initVisionPc, permissionError,
                 isLoading, mounted, removed, ema, emaCall, focusedId,
                 filteredItems>>

\* The frame callback fires with videoRef, canvasRef or the backend empty:
\* it returns at its guard, before the detector is called, and requests no
\* further frame.
FrameGuardReturns ==
  /\ loop = "running"
  /\ ~mounted \/ ~handLandmarker
  /\ loop' = "stopped"
  /\ UNCHANGED <<mode, scrollOffset, cursor, lastLeftHandTime, leftHandX_EMA,
                 leftPinchSmoother, leftOpenPalmSmoother, cursorX_EMA, cursorY_EMA,
                 isPinchingRef, anchorPos, lastCursorPos, isDraggingUI, dragTarget,
                 lastHoveredElement, scrollTop, events, now, results, frame,
                 leftSeenAt, prev, handLandmarker, created, initPc, initVisionPc,
                 permissionError, isLoading, detect, escaped, mounted, removed,
                 pinchRun, ema, emaCall, pointer, focusedId, filteredItems>>

\* A frame that sees no hand: the detector returns none, throws or is skipped.
FrameNoHands(gaps, maxFrames) ==
  \E gap \in gaps, outcome \in DetectOutcomes :
    /\ results' = <<>>
    /\ RunFrame(outcome, results', gap, maxFrames)

\* A frame with a Left hand only.
FrameLeft(lefts, gaps, maxFrames) ==
  \E l \in lefts, gap \in gaps :
    /\ results' = <<l>>
    /\ RunFrame("returned", results', gap, maxFrames)

\* A frame with a Right hand only.
FrameRight(rights, gaps, maxFrames) ==
  \E r \in rights, gap \in gaps :
    /\ results' = <<r>>
    /\ RunFrame("returned", results', gap, maxFrames)

\* A frame with both hands, the Left one listed first.
FrameLeftRight(lefts, rights, gaps, maxFrames) ==
  \E l \in lefts, r \in rights, gap \in gaps :
    /\ results' = <<l, r>>
    /\ RunFrame("returned", results', gap, maxFrames)

\* A frame with both hands, the Right one listed first.
FrameRightLeft(lefts, rights, gaps, maxFrames) ==
  \E l \in lefts, r \in rights, gap \in gaps :
    /\ results' = <<r, l>>
    /\ RunFrame("returned", results', gap, maxFrames)

\* VisionManager.initialize(), call c: the guard on handLandmarker.
InitializeEnter(c) ==
  /\ initPc[c] = "idle"
  /\ initPc' = [initPc EXCEPT ![c] = IF handLandmarker THEN "done" ELSE "resolving"]
  /\ UNCHANGED <<handLandmarker, created, initVisionPc, permissionError, isLoading>>
  /\ UNCHANGED frameVars

\* FilesetResolver.forVisionTasks resolves; the call goes on to createFromOptions.
ForVisionTasksResolves(c) ==
  /\ initPc[c] = "resolving"
  /\ initPc' = [initPc EXCEPT ![c] = "creating"]
  /\ UNCHANGED <<handLandmarker, created, initVisionPc, permissionError, isLoading>>
  /\ UNCHANGED frameVars

\* HandLandmarker.createFromOptions resolves with a new backend, which the
\* call stores.
CreateFromOptionsResolves(c) ==
  /\ initPc[c] = "creating"
  /\ initPc' = [initPc EXCEPT ![c] = "done"]
  /\ handLandmarker' = TRUE
  /\ created' = created + 1
  /\ UNCHANGED <<initVisionPc, permissionError, isLoading>>
  /\ UNCHANGED frameVars

\* Either await rejects (network, GPU backend): initialize() rejects.
InitializeRejects(c) ==
  /\ initPc[c] \in {"resolving", "creating"}
  /\ initPc' = [initPc EXCEPT ![c] = "failed"]
  /\ UNCHANGED <<handLandmarker, created, initVisionPc, permissionError, isLoading>>
  /\ UNCHANGED frameVars

\* initVision: vm.initialize() has resolved, startCamera() is called and
\* awaits getUserMedia.
StartCamera ==
  /\ initVisionPc = "initialize"
  /\ initPc[1] = "done"
  /\ initVisionPc' = "camera"
  /\ UNCHANGED <<handLandmarker, created, initPc, permissionError, isLoading>>
  /\ UNCHANGED frameVars

\* The catch block that ends loading without raising the error state.
InitVisionCatch_Swallow ==
  /\ initVisionPc = "initialize"
  /\ initPc[1] = "failed"
  /\ initVisionPc' = "caught"
  /\ isLoading' = FALSE
  /\ UNCHANGED <<handLandmarker, created, initPc, permissionError>>
  /\ UNCHANGED frameVars

\* initVision: vm.initialize() has rejected; the catch block runs.
InitVisionCatch ==
  /\ initVisionPc = "initialize"
  /\ initPc[1] = "failed"
  /\ initVisionPc' = "caught"
  /\ permissionError' = TRUE
  /\ isLoading' = FALSE
  /\ UNCHANGED <<handLandmarker, created, initPc>>
  /\ UNCHANGED frameVars

\* startCamera: getUserMedia resolves, predictWebcam is registered for
\* loadeddata; initVision then ends loading.
CameraGranted ==
  /\ initVisionPc = "camera"
  /\ initVisionPc' = "done"
  /\ loop' = "running"
  /\ isLoading' = FALSE
  /\ UNCHANGED <<handLandmarker, created, initPc, permissionError>>
  /\ UNCHANGED <<mode, scrollOffset, cursor, lastLeftHandTime, leftHandX_EMA,
                 leftPinchSmoother, leftOpenPalmSmoother, cursorX_EMA, cursorY_EMA,
                 isPinchingRef, anchorPos, lastCursorPos, isDraggingUI, dragTarget,
                 lastHoveredElement, scrollTop, events, now, results, frame,
                 leftSeenAt, prev, detect, escaped, mounted, removed,
                 pinchRun, ema,
                 emaCall, pointer, focusedId, filteredItems>>

\* startCamera: getUserMedia rejects, startCamera catches it; initVision then
\* ends loading.
CameraDenied ==
  /\ initVisionPc = "camera"
  /\ initVisionPc' = "done"
  /\ permissionError' = TRUE
  /\ isLoading' = FALSE
  /\ UNCHANGED <<handLandmarker, created, initPc>>
  /\ UNCHANGED frameVars

\* The mount effect: initVision with its one call of initialize().
Mount ==
  \/ InitializeEnter(1)
  \/ ForVisionTasksResolves(1)
  \/ CreateFromOptionsResolves(1)
  \/ InitializeRejects(1)
  \/ StartCamera
  \/ InitVisionCatch
  \/ CameraGranted
  \/ CameraDenied

\* The whole pipeline: every right-hand pose, alone or with a pinching left
\* hand listed before or after it.
Next ==
  \/ Mount
  \/ FrameNoHands(FrameGaps, MaxFrames)
  \/ FrameLeft({LeftPinch}, FrameGaps, MaxFrames)
  \/ FrameRight(RightPoses, FrameGaps, MaxFrames)
  \/ FrameLeftRight({LeftPinch}, RightPoses, FrameGaps, MaxFrames)
  \/ FrameRightLeft({LeftPinch}, RightPoses, FrameGaps, MaxFrames)

Spec == Init /\ [][Next]_vars

\* The left-hand mode machine in depth: every left-hand pose, and a right
\* hand over the month button that presses (0.03) or releases (0.08).
NextLeft ==
  \/ Mount
  \/ FrameNoHands(FrameGaps, MaxLeftFrames)
  \/ FrameLeft(LeftPoses, FrameGaps, MaxLeftFrames)
  \/ FrameRight({RightHand("A", 30), RightHand("A", 80)}, FrameGaps, MaxLeftFrames)

SpecLeft == Init /\ [][NextLeft]_vars

\* Runs of left-hand frames in depth, with and without a right hand that
\* holds a press on the month button or on the slider (listed first, so
\* that the press is processed before the Left hand's turn).
NextRun ==
  \/ Mount
  \/ FrameNoHands(FrameGaps, MaxLeftFrames)
  \/ FrameLeft({LeftPinch, LeftTwo}, FrameGaps, MaxLeftFrames)
  \/ FrameRightLeft({LeftPinch}, {RightHand("A", 30), RightHand("B", 30)},
                    FrameGaps, MaxLeftFrames)

SpecRun == Init /\ [][NextRun]_vars

\* The component is unmounted once initVision has settled: React empties
\* videoRef and canvasRef.  No effect of the component returns a cleanup, so
\* nothing else happens: the frame request stays pending, the drag session
\* stays as it is.
Unmount ==
  /\ mounted
  /\ initVisionPc = "done"
  /\ mounted' = FALSE
  /\ UNCHANGED <<mode, scrollOffset, cursor, lastLeftHandTime, leftHandX_EMA,
                 leftPinchSmoother, leftOpenPalmSmoother, cursorX_EMA, cursorY_EMA,
                 isPinchingRef, anchorPos, lastCursorPos, isDraggingUI, dragTarget,
                 lastHoveredElement, scrollTop, events, now, results, frame,
                 leftSeenAt, prev, handLandmarker, created, initPc, initVisionPc,
                 permissionError, isLoading, loop, detect, escaped, removed,
                 pinchRun, ema,
                 emaCall, pointer, focusedId, filteredItems>>

\* The host removes an element from the document (a re-render that drops
\* it) while the component is running; the program holds its references.
RemoveElement ==
  /\ mounted
  /\ initVisionPc = "done"
  /\ \E el \in Elements \ removed : removed' = removed \cup {el}
  /\ UNCHANGED <<mode, scrollOffset, cursor, lastLeftHandTime, leftHandX_EMA,
                 leftPinchSmoother, leftOpenPalmSmoother, cursorX_EMA, cursorY_EMA,
                 isPinchingRef, anchorPos, lastCursorPos, isDraggingUI, dragTarget,
                 lastHoveredElement, scrollTop, events, now, results, frame,
                 leftSeenAt, prev, handLandmarker, created, initPc, initVisionPc,
                 permissionError, isLoading, loop, detect, escaped, mounted,
                 pinchRun, ema, emaCall, pointer, focusedId, filteredItems>>

\* A detector result that holds only the first n landmarks of a hand.
ShortHand(hand, n) == Hand(hand.handedness, SubSeq(hand.landmarks, 1, n))

\* The component against its host: teardown, elements removed from the
\* document, and hands of 5 or 12 landmarks next to well-formed ones.
NextHost ==
  \/ Mount
  \/ Unmount
  \/ FrameGuardReturns
  \/ RemoveElement
  \/ FrameNoHands(FrameGaps, MaxFrames)
  \/ FrameLeft({LeftPinch, ShortHand(LeftPinch, 5), ShortHand(LeftPinch, 12)},
               FrameGaps, MaxFrames)
  \/ FrameRight({RightHand("A", 30), RightHand("A", 80), ShortHand(RightHand("A", 30), 5),
                 ShortHand(RightHand("A", 30), 12)},
                FrameGaps, MaxFrames)
  \/ FrameRightLeft({ShortHand(LeftPinch, 12)}, {RightHand("A", 30)}, FrameGaps, MaxFrames)

SpecHost == Init /\ [][NextHost]_vars

\* VisionManager.initialize() alone: calls on the singleton in every
\* interleaving of their awaits.
NextInit ==
  \E c \in Calls :
    \/ InitializeEnter(c)
    \/ ForVisionTasksResolves(c)
    \/ CreateFromOptionsResolves(c)
    \/ InitializeRejects(c)

SpecInit == Init /\ [][NextInit]_vars

\* The first setMode updater of processLeftHand as a function of its three
\* inputs: the current mode and the smoothed pinch and open-palm values the
\* frame has just computed, drawn from 0, 0.1, .. 1.
SmoothedValues == {k * (One \div 10) : k \in 0..10}

InitDecide ==
  /\ mode \in AppMode
  /\ \E p \in SmoothedValues : leftPinchSmoother = [NewEMA(1, 5) EXCEPT !.value = <<p>>]
  /\ \E o \in SmoothedValues : leftOpenPalmSmoother = [NewEMA(1, 5) EXCEPT !.value = <<o>>]
  /\ ema = NewEMA(1, 5)
  /\ InitRest
  /\ prev = Cur

\* React applies the updater to the current mode.
ApplyDecideMode ==
  /\ frame = 0
  /\ mode' = DecideMode(mode, IsActive(leftPinchSmoother.value[1]),
                        leftPinchSmoother.value[1],
                        IsActive(leftOpenPalmSmoother.value[1]))
  /\ frame' = 1
  /\ prev' = Cur
  /\ UNCHANGED <<scrollOffset, cursor, lastLeftHandTime, leftHandX_EMA,
                 leftPinchSmoother, leftOpenPalmSmoother, cursorX_EMA, cursorY_EMA,
                 isPinchingRef, anchorPos, lastCursorPos, isDraggingUI, dragTarget,
                 lastHoveredElement, scrollTop, events, now, results, leftSeenAt,
                 handLandmarker, created, initPc, initVisionPc, permissionError,
                 isLoading, loop, detect, escaped, mounted, removed, pinchRun,
          ema, emaCall, pointer, focusedId, filteredItems>>

SpecDecide == InitDecide /\ [][ApplyDecideMode]_vars

\* The EMA class on its own: instances built with the smoothing factors of
\* the program (0.1, 0.2), with 0.5 and with 1, called up to MaxEMACalls
\* times with inputs 0, 0.5 and 1 (in units of 1/One); run counts the
\* consecutive updates that were fed the same input.
MaxEMACalls == 4

EMAInputs == {0, One \div 2, One}

InitEMA ==
  /\ mode = "AGGREGATE"
  /\ leftPinchSmoother = NewEMA(1, 5)
  /\ leftOpenPalmSmoother = NewEMA(1, 5)
  /\ ema \in {NewEMA(1, 10), NewEMA(1, 5), NewEMA(1, 2), NewEMA(1, 1)}
  /\ InitRest
  /\ prev = Cur

EMACallRest ==
  UNCHANGED <<mode, scrollOffset, cursor, lastLeftHandTime, leftHandX_EMA,
              leftPinchSmoother, leftOpenPalmSmoother, cursorX_EMA, cursorY_EMA,
              isPinchingRef, anchorPos, lastCursorPos, isDraggingUI, dragTarget,
              lastHoveredElement, scrollTop, events, now, results, frame,
              leftSeenAt, prev, handLandmarker, created, initPc, initVisionPc,
              permissionError, isLoading, loop, detect, escaped, mounted,
              removed, pinchRun, pointer, focusedId, filteredItems>>

\* ema.update(x): the value is stored, then returned.
EMAUpdateCall ==
  /\ emaCall.n < MaxEMACalls
  /\ \E x \in EMAInputs :
       /\ ema' = EMAUpdate(ema, x)
       /\ emaCall' = [method |-> "update", arg |-> x, returned |-> ema'.value[1],
                      n |-> emaCall.n + 1,
                      run |-> IF emaCall.method = "update" /\ emaCall.arg = x
                                THEN emaCall.run + 1 ELSE 1]
  /\ EMACallRest

\* ema.reset()
EMAResetCall ==
  /\ emaCall.n < MaxEMACalls
  /\ ema' = EMAReset(ema)
  /\ emaCall' = [method |-> "reset", arg |-> 0, returned |-> 0, n |-> emaCall.n + 1,
                 run |-> 0]
  /\ EMACallRest

NextEMA == EMAUpdateCall \/ EMAResetCall

SpecEMA == InitEMA /\ [][NextEMA]_vars

----------------------------------------------------------------------------
(* The focusedId effect: the item the carousel has turned to.  It is the   *)
(* function of scrollOffset and of the item list below, applied whenever   *)
(* one of the two changes; the frame actions above do not follow it.       *)

\* Lists of up to MaxItems items.
MaxItems == 5

\* The ids of the items of a list of n items.
ItemIds(n) == [i \in 1..n |-> ToString(i)]

\* One thousandth of a radian, in the unit of scrollOffset.
MilliRad == (20 * One) \div 1000

\* The offsets the effect is applied to, in thousandths of a radian: every
\* quarter radian from -10 to 10 (more than a turn and a half each way).
FocusOffsets == {250 * k : k \in -40..40}

\* Math.PI as a fraction.
PI_NUM == 355
PI_DEN == 113

\* Math.round(a / b) for b > 0: the nearest integer, halves toward +infinity.
RoundDiv(a, b) == (2 * a + b) \div (2 * b)

\* a % n of JavaScript, for n > 0: the remainder has the sign of a.
JSRem(a, n) == IF a >= 0 THEN a % n ELSE -((-a) % n)

\* Math.round(-scrollOffset / angleStep), angleStep = 2 * Math.PI / len
RawIndex(offset, len) ==
  RoundDiv(-(offset \div MilliRad) * len * PI_DEN, 2 * PI_NUM * 1000)

\* The wrap with a single remainder.
WrappedIndex_SingleRemainder(rawIndex, len) == JSRem(rawIndex, len)

\* ((rawIndex % len) + len) % len
WrappedIndex(rawIndex, len) == JSRem(JSRem(rawIndex, len) + len, len)

\* The effect: the focused id after it ran, focused being the one before.
FocusEffect(offset, items, focused) ==
  IF Len(items) = 0 THEN Null
  ELSE LET w == WrappedIndex(RawIndex(offset, Len(items)), Len(items))
       IN IF w + 1 \in DOMAIN items THEN items[w + 1] ELSE focused

FocusRest ==
  UNCHANGED <<mode, cursor, lastLeftHandTime, leftHandX_EMA,
              leftPinchSmoother, leftOpenPalmSmoother, cursorX_EMA, cursorY_EMA,
              isPinchingRef, anchorPos, lastCursorPos, isDraggingUI, dragTarget,
              lastHoveredElement, scrollTop, events, now, results, frame,
              leftSeenAt, prev, handLandmarker, created, initPc, initVisionPc,
              permissionError, isLoading, loop, detect, escaped, mounted,
              removed, pinchRun, ema, emaCall, pointer>>

\* scrollOffset is set, and the effect runs.
SetScrollOffset ==
  /\ \E m \in FocusOffsets : scrollOffset' = m * MilliRad
  /\ focusedId' = FocusEffect(scrollOffset', filteredItems, focusedId)
  /\ UNCHANGED filteredItems
  /\ FocusRest

\* The item list is replaced, and the effect runs.
SetFilteredItems ==
  /\ \E n \in 0..MaxItems : filteredItems' = ItemIds(n)
  /\ focusedId' = FocusEffect(scrollOffset, filteredItems', focusedId)
  /\ UNCHANGED scrollOffset
  /\ FocusRest

NextFocus == SetScrollOffset \/ SetFilteredItems

SpecFocus == Init /\ [][NextFocus]_vars

----------------------------------------------------------------------------
(* Vocabulary of the properties.  A property speaks of the latest frame:   *)
(* results is what the detector reported, prev the state on entry, the     *)
(* variables the state on exit, events what the frame dispatched.          *)

SawLeft == \E i \in 1..Len(results) : results[i].handedness = "Left"
SawRight == \E i \in 1..Len(results) : results[i].handedness = "Right"

\* The Left hand of the frame went through the classifier: no drag session
\* was open when its turn came (a Right hand listed before it has been
\* processed by then, and nothing after it changes the dragging flag).
LeftClassified ==
  /\ frame > 0
  /\ \E i \in 1..Len(results) :
       /\ results[i].handedness = "Left"
       /\ ~(IF i = 1 THEN prev.isDraggingUI ELSE isDraggingUI)

\* The smoothed pinch value of the left hand lies in 0.4 .. 0.6.
PinchInDeadBand ==
  /\ leftPinchSmoother.value # <<>>
  /\ 10 * leftPinchSmoother.value[1] >= 4 * One
  /\ 10 * leftPinchSmoother.value[1] <= 6 * One

\* The landmarks of the frame's Right hand.
RightLandmarks ==
  results[CHOOSE i \in 1..Len(results) : results[i].handedness = "Right"].landmarks

\* The landmarks of the frame's Left hand.
LeftLandmarks ==
  results[CHOOSE i \in 1..Len(results) : results[i].handedness = "Left"].landmarks

\* The frame's Left hand shows a pinch: thumb tip to index tip below 0.05.
LeftShowsPinch ==
  LET a == LeftLandmarks[5]
      b == LeftLandmarks[9]
  IN (a.x - b.x) * (a.x - b.x) + (a.y - b.y) * (a.y - b.y) + (a.z - b.z) * (a.z - b.z)
       < 50 * 50

\* Thumb tip to index tip of the frame's Right hand, squared, in thousandths.
RightPinchDistSq ==
  LET a == RightLandmarks[5]
      b == RightLandmarks[9]
  IN (a.x - b.x) * (a.x - b.x) + (a.y - b.y) * (a.y - b.y) + (a.z - b.z) * (a.z - b.z)

\* The press and release events among es, in order.
PressRelease(es) ==
  SelectSeq(es, LAMBDA e :
    e.type \in {"pointerdown", "mousedown", "pointerup", "mouseup", "click"})

\* The pointer-move events among es, in order.
Moves(es) == SelectSeq(es, LAMBDA e : e.type = "pointermove")

----------------------------------------------------------------------------
(* Properties *)

\* C1: once mode is FOCUS, a Left-hand frame that goes through the
\* classifier and leaves the smoothed pinch value in the dead-band 0.4..0.6
\* keeps mode FOCUS; the classifier takes mode out of FOCUS only on a frame
\* whose smoothed pinch value is below 0.4.
C1_DeadBandKeepsFocus ==
  (LeftClassified /\ prev.mode = "FOCUS") =>
    /\ PinchInDeadBand => mode = "FOCUS"
    /\ mode # "FOCUS" => 10 * leftPinchSmoother.value[1] < 4 * One

\* C2: on every frame with a Right hand, a thumb-index distance below 0.04
\* sets pinching, a distance above 0.055 clears it, and a distance from 0.04
\* to 0.055 inclusive leaves it as it was.
C2_PinchHysteresis ==
  (frame > 0 /\ SawRight) =>
    /\ RightPinchDistSq < 40 * 40 => isPinchingRef
    /\ RightPinchDistSq > 55 * 55 => ~isPinchingRef
    /\ (RightPinchDistSq >= 40 * 40 /\ RightPinchDistSq <= 55 * 55)
         => isPinchingRef = prev.isPinchingRef

\* C2 witness: a pinch held through a frame whose distance is exactly the OFF
\* threshold.
C2_Witness ==
  /\ frame > 0
  /\ SawRight
  /\ RightPinchDistSq = 55 * 55
  /\ prev.isPinchingRef
  /\ isPinchingRef

\* C3 as stated: after a drag starts on E, on every later frame with the
\* Right hand still pinching the move events go to E and to no other
\* element, and the session ends with pointer-up, mouse-up and click on E.
C3_Original ==
  (frame > 0 /\ prev.isDraggingUI) =>
    /\ (SawRight /\ isPinchingRef) =>
         /\ Moves(events) # <<>>
         /\ \A i \in 1..Len(Moves(events)) : Moves(events)[i].target = prev.dragTarget
    /\ ~isDraggingUI =>
         /\ [i \in 1..Len(PressRelease(events)) |-> PressRelease(events)[i].type]
              = <<"pointerup", "mouseup", "click">>
         /\ \A i \in 1..Len(PressRelease(events)) :
              PressRelease(events)[i].target = prev.dragTarget

\* C3 amended: while a drag on E is open, every frame with the Right hand
\* still pinching dispatches exactly one primary pointer-move, to E, whatever
\* element is under the cursor (that element gets the hover move), and keeps
\* the session on E; a pinch release ends the session with pointer-up,
\* mouse-up, click on E; a frame without a Right hand ends it with a
\* pointer-up on E alone.
C3_PointerCapture ==
  (frame > 0 /\ prev.isDraggingUI) =>
    LET E == prev.dragTarget
        primaryMoves == SelectSeq(Moves(events), LAMBDA e : e.primary)
        hoverMoves == SelectSeq(Moves(events), LAMBDA e : ~e.primary)
    IN /\ (SawRight /\ isPinchingRef) =>
            /\ primaryMoves = <<Event("pointermove", E, TRUE)>>
            /\ \A i \in 1..Len(hoverMoves) : hoverMoves[i].target = lastHoveredElement
            /\ PressRelease(events) = <<>>
            /\ isDraggingUI
            /\ dragTarget = E
       /\ (SawRight /\ ~isPinchingRef) =>
            PressRelease(events) = <<Event("pointerup", E, TRUE),
                                     Event("mouseup", E, FALSE),
                                     Event("click", E, FALSE)>>
       /\ ~SawRight => PressRelease(events) = <<Event("pointerup", E, FALSE)>>

\* C3 witness: a drag begun on the month button is held while the cursor is
\* over the slider; the drag move went to the month button.
C3_Witness ==
  /\ frame > 0
  /\ prev.isDraggingUI
  /\ prev.dragTarget = "month-button"
  /\ isDraggingUI
  /\ lastHoveredElement = "slider"
  /\ \E i \in 1..Len(events) : events[i] = Event("pointermove", "month-button", TRUE)

\* C4 as stated: a frame without a Right hand while a drag session is open
\* fires pointer-up, mouse-up and click on the drag target.
C4_Original ==
  (frame > 0 /\ prev.isDraggingUI /\ ~SawRight) =>
    /\ Len(PressRelease(events)) = 3
    /\ PressRelease(events)[1].type = "pointerup"
    /\ PressRelease(events)[2].type = "mouseup"
    /\ PressRelease(events)[3].type = "click"
    /\ \A i \in 1..3 : PressRelease(events)[i].target = prev.dragTarget

\* C4 amended: a frame without a Right hand while a drag session is open
\* dispatches one pointer-up to the drag target, and nothing else, in that
\* same frame, and closes the session.
C4_ForcedRelease ==
  (frame > 0 /\ prev.isDraggingUI /\ ~SawRight) =>
    /\ events = <<Event("pointerup", prev.dragTarget, FALSE)>>
    /\ ~isDraggingUI
    /\ dragTarget = Null

\* C4 witness: no hand at all is reported while the month button is held.
C4_Witness ==
  /\ frame > 0
  /\ results = <<>>
  /\ prev.isDraggingUI
  /\ prev.dragTarget = "month-button"
  /\ events = <<Event("pointerup", "month-button", FALSE)>>

\* C5: after every frame without a Right hand, with or without a Left hand,
\* no drag target is held, and a drag target held on entry received a
\* pointer-up during the frame.
C5_NoDragWithoutRightHand ==
  (frame > 0 /\ ~SawRight) =>
    /\ dragTarget = Null
    /\ ~isDraggingUI
    /\ prev.dragTarget # Null =>
         \E i \in 1..Len(events) :
           events[i].type = "pointerup" /\ events[i].target = prev.dragTarget

\* C5 witness: a frame with a Left hand only, entered with a drag target held.
C5_Witness ==
  /\ frame > 0
  /\ SawLeft
  /\ ~SawRight
  /\ prev.dragTarget # Null
  /\ dragTarget = Null

\* C6: on a frame where the right-hand pinch ends while a drag target is
\* held, the press and release events of the frame are exactly pointer-up,
\* mouse-up, click, in that order, all on the original drag target, and no
\* drag session is open afterwards.
C6_ReleaseSequence ==
  (frame > 0 /\ SawRight /\ prev.isPinchingRef /\ ~isPinchingRef
     /\ prev.dragTarget # Null) =>
    /\ PressRelease(events) = <<Event("pointerup", prev.dragTarget, TRUE),
                                Event("mouseup", prev.dragTarget, FALSE),
                                Event("click", prev.dragTarget, FALSE)>>
    /\ ~isDraggingUI
    /\ dragTarget = Null

\* C6 witness: the pinch ends over the slider while the month button is the
\* drag target, and the click went to the month button.
C6_Witness ==
  /\ frame > 0
  /\ SawRight
  /\ prev.isPinchingRef
  /\ ~isPinchingRef
  /\ prev.dragTarget = "month-button"
  /\ lastHoveredElement = "slider"
  /\ events[Len(events)] = Event("click", "month-button", FALSE)

\* C7: on a frame where the thumb-index distance of the Right hand falls
\* below 0.04 from a non-pinching state, pinching is true after the frame,
\* the Anchor is that frame's smoothed position, which is also the reported
\* position, and the element under it, if there is one, is the drag target
\* and received pointer-down then mouse-down (with no element there, no press
\* is dispatched and no session opens).
C7_RisingEdge ==
  (frame > 0 /\ SawRight /\ ~prev.isPinchingRef /\ RightPinchDistSq < 40 * 40) =>
    LET smooth == [x |-> cursorX_EMA.value[1], y |-> cursorY_EMA.value[1]]
        el == ElementFromPoint(cursor.x, cursor.y)
    IN /\ isPinchingRef
       /\ anchorPos = <<smooth>>
       /\ cursor.x = smooth.x
       /\ cursor.y = smooth.y
       /\ el # Null =>
            /\ dragTarget = el
            /\ isDraggingUI
            /\ PressRelease(events) = <<Event("pointerdown", el, TRUE),
                                        Event("mousedown", el, FALSE)>>
       /\ el = Null =>
            /\ dragTarget = Null
            /\ ~isDraggingUI
            /\ PressRelease(events) = <<>>

\* C7 witness: the Right hand, seen open on the previous frame, pinches; the
\* smoothed position differs from the raw one and the element under it was
\* pressed.
C7_Witness ==
  /\ frame > 0
  /\ SawRight
  /\ prev.cursor.active
  /\ ~prev.isPinchingRef
  /\ isPinchingRef
  /\ anchorPos # <<>>
  /\ anchorPos[1].x # (1000 - RightLandmarks[9].x) * ((InnerWidth * CursorScale) \div 1000)
  /\ dragTarget # Null
  /\ PressRelease(events) = <<Event("pointerdown", dragTarget, TRUE),
                              Event("mousedown", dragTarget, FALSE)>>

C9_IdleTimeout ==
  (frame > 0 /\ ~SawLeft /\ leftSeenAt # <<>> /\ now - leftSeenAt[1] > 500) =>
    mode = "AGGREGATE"

\* C9 witness: the timeout takes mode out of FOCUS on a frame that has a
\* Right hand.
C9_Witness ==
  /\ frame > 0
  /\ ~SawLeft
  /\ SawRight
  /\ leftSeenAt # <<>>
  /\ now - leftSeenAt[1] > 500
  /\ prev.mode = "FOCUS"
  /\ mode = "AGGREGATE"

\* C10 as stated: a frame without a Left hand whose clock reads exactly
\* 500 ms after the latest frame that had one ends in AGGREGATE.
C10_Original ==
  (frame > 0 /\ ~SawLeft /\ leftSeenAt # <<>> /\ now - leftSeenAt[1] = 500) =>
    mode = "AGGREGATE"

\* C10 amended: a frame without a Left hand whose clock reads exactly 500 ms
\* after the latest frame that had one leaves mode as it was (the timeout
\* needs more than 500 ms).
C10_ExactlyAtTimeout ==
  (frame > 0 /\ ~SawLeft /\ leftSeenAt # <<>> /\ now - leftSeenAt[1] = 500) =>
    mode = prev.mode

\* C10 witness: FOCUS survives the frame at exactly 500 ms.
C10_Witness ==
  /\ frame > 0
  /\ ~SawLeft
  /\ leftSeenAt # <<>>
  /\ now - leftSeenAt[1] = 500
  /\ prev.mode = "FOCUS"
  /\ mode = "FOCUS"

\* C11: a frame that holds a Left and a Right hand ends in the same state
\* (mode, scrollOffset, smoothers, cursor, pinching, anchor, drag session)
\* and dispatches the same events as the same frame with the two hands
\* listed in the other order.
C11_OrderIndependent ==
  (frame > 0 /\ Len(results) = 2 /\ SawLeft /\ SawRight) =>
    PredictWebcam(prev, <<results[2], results[1]>>, now) = Cur

\* C12: scrollOffset changes only on a frame whose Left hand goes through
\* the classifier and whose decided mode is BROWSE, and then by exactly
\* (smoothedX - 0.5) * 0.15, smoothedX being the EMA with alpha 0.1 of
\* 1 - x of the middle-finger base; on every other frame it is unchanged.
C12_ScrollOnlyInBrowse ==
  frame > 0 =>
    IF LeftClassified /\ mode = "BROWSE"
      THEN LET mirrored == One - LeftLandmarks[10].x * (One \div 1000)
               smoothedX == leftHandX_EMA.value[1]
           IN /\ IF prev.leftHandX_EMA.value = <<>>
                    THEN smoothedX = mirrored
                    ELSE 10 * smoothedX = mirrored + 9 * prev.leftHandX_EMA.value[1]
              /\ 2 * (scrollOffset - prev.scrollOffset) = 6 * smoothedX - 3 * One
      ELSE scrollOffset = prev.scrollOffset

\* C12 witness: a BROWSE frame blends the hand position with the smoothed
\* one and moves scrollOffset; the frame was entered in another mode.
C12_Witness ==
  /\ LeftClassified
  /\ mode = "BROWSE"
  /\ prev.mode # "BROWSE"
  /\ prev.leftHandX_EMA.value # <<>>
  /\ leftHandX_EMA.value # prev.leftHandX_EMA.value
  /\ scrollOffset # prev.scrollOffset

\* C13: whenever the mode updater of the left classifier is applied, the new
\* mode is the four-rule reference of the current mode, the smoothed pinch
\* value p and the smoothed open-palm value o, for every combination of the
\* three: FOCUS if p > 0.6; else, from FOCUS with p < 0.4, BROWSE if o > 0.6
\* and AGGREGATE if not; else BROWSE if o > 0.6; else AGGREGATE.
C13_FourRuleReference ==
  frame > 0 =>
    LET p == leftPinchSmoother.value[1]
        o == leftOpenPalmSmoother.value[1]
    IN /\ 10 * p > 6 * One => mode = "FOCUS"
       /\ (10 * p <= 6 * One /\ prev.mode = "FOCUS" /\ 10 * p < 4 * One) =>
            /\ 10 * o > 6 * One => mode = "BROWSE"
            /\ 10 * o <= 6 * One => mode = "AGGREGATE"
       /\ (10 * p <= 6 * One /\ ~(prev.mode = "FOCUS" /\ 10 * p < 4 * One)) =>
            /\ 10 * o > 6 * One => mode = "BROWSE"
            /\ 10 * o <= 6 * One => mode = "AGGREGATE"

\* C13 witness: the second rule's case, current mode FOCUS with p = 0.3 and
\* the open palm not active (o exactly 0.6), yields AGGREGATE.
C13_Witness ==
  /\ frame > 0
  /\ prev.mode = "FOCUS"
  /\ 10 * leftPinchSmoother.value[1] = 3 * One
  /\ 10 * leftOpenPalmSmoother.value[1] = 6 * One
  /\ mode = "AGGREGATE"

\* C14: on a frame with a Right hand that ends pinching, with Anchor A and
\* smoothed position B, the reported position is A + 0.05 * (B - A) on each
\* axis, hence strictly between A and B and closer to A where they differ,
\* and a sustained pinch keeps the Anchor; on the frame where the pinch ends
\* the Anchor is cleared; on every frame that ends not pinching the reported
\* position is the smoothed position.
C14_Anchoring ==
  (frame > 0 /\ SawRight) =>
    LET B == [x |-> cursorX_EMA.value[1], y |-> cursorY_EMA.value[1]]
        Between(a, c, b) == (a < c /\ c < b) \/ (b < c /\ c < a)
        Closer(a, c, b) == IF a < b THEN c - a < b - c ELSE a - c < c - b
    IN /\ isPinchingRef =>
            /\ anchorPos # <<>>
            /\ prev.isPinchingRef => anchorPos = prev.anchorPos
            /\ 20 * cursor.x = 19 * anchorPos[1].x + B.x
            /\ 20 * cursor.y = 19 * anchorPos[1].y + B.y
            /\ B.x # anchorPos[1].x =>
                 /\ Between(anchorPos[1].x, cursor.x, B.x)
                 /\ Closer(anchorPos[1].x, cursor.x, B.x)
            /\ B.y # anchorPos[1].y =>
                 /\ Between(anchorPos[1].y, cursor.y, B.y)
                 /\ Closer(anchorPos[1].y, cursor.y, B.y)
       /\ (prev.isPinchingRef /\ ~isPinchingRef) => anchorPos = <<>>
       /\ ~isPinchingRef => (cursor.x = B.x /\ cursor.y = B.y)

\* C14 witness: a pinch taken over the month button is held while the hand
\* moves toward the slider; the reported position has left the Anchor.
C14_Witness ==
  /\ frame > 0
  /\ SawRight
  /\ prev.isPinchingRef
  /\ isPinchingRef
  /\ anchorPos = prev.anchorPos
  /\ cursorX_EMA.value[1] # anchorPos[1].x
  /\ cursorY_EMA.value[1] # anchorPos[1].y
  /\ cursor.x # anchorPos[1].x
  /\ 20 * cursor.x = 19 * anchorPos[1].x + cursorX_EMA.value[1]

\* C15: after every frame, cursor.clicking equals the debounced pinching
\* state of the right hand, also after frames without a Right hand.
C15_ClickingMirrorsPinch ==
  frame > 0 => cursor.clicking = isPinchingRef

\* C16: after every frame, cursor.active is true if and only if the frame
\* saw a Right hand.
C16_ActiveIffRightHand ==
  frame > 0 => (cursor.active <=> SawRight)

\* C16 witness: a frame in which the detector threw, entered with the
\* cursor active, leaves it inactive.
C16_Witness ==
  /\ frame > 0
  /\ detect = "threw"
  /\ prev.cursor.active
  /\ ~cursor.active

\* C17: cursor.lastClickTime is set to the frame's clock on a frame where
\* the right-hand pinch goes from false to true, and keeps its value on
\* every other frame (sustained pinch, release, no Right hand, no hand).
C17_LastClickTimeOnRisingEdge ==
  frame > 0 =>
    IF SawRight /\ ~prev.isPinchingRef /\ isPinchingRef
      THEN cursor.lastClickTime = now
      ELSE cursor.lastClickTime = prev.cursor.lastClickTime

\* C17 witness: the frame after a rising edge holds the pinch and keeps the
\* time stamped by the rising edge.
C17_Witness ==
  /\ frame > 0
  /\ SawRight
  /\ prev.isPinchingRef
  /\ isPinchingRef
  /\ prev.cursor.lastClickTime > 0
  /\ cursor.lastClickTime = prev.cursor.lastClickTime
  /\ cursor.lastClickTime < now

\* C18: across every interleaving of initialize() calls on the singleton,
\* a duplicate call that starts while the first is still awaiting included,
\* the backend is created at most once, exactly once when a call has
\* completed, and a call that starts after the backend is stored creates
\* nothing.
C18_CreatedOnce ==
  /\ created <= 1
  /\ (\E c \in Calls : initPc[c] = "done") => created = 1

\* C19: a frame is processed, or the loop registered, only after the mount
\* effect's initialize() has completed and stored the backend; once a failed
\* initialize() is caught, and once the camera is refused, permissionError is
\* set, loading has ended, no frame has been processed, the loop is not
\* registered, and the failed initialize() stays failed (no retry).
C19_InitGatesTheLoop ==
  /\ (frame > 0 \/ loop # "off") => (handLandmarker /\ initPc[1] = "done")
  /\ initVisionPc = "caught" =>
       /\ initPc[1] = "failed"
       /\ ~handLandmarker
       /\ permissionError
       /\ ~isLoading
       /\ frame = 0
       /\ loop = "off"
  /\ (initVisionPc = "done" /\ loop = "off") =>
       /\ permissionError
       /\ ~isLoading
       /\ frame = 0

\* C19 witness: initialize() has rejected and the catch block has run.
C19_Witness ==
  /\ initVisionPc = "caught"
  /\ initPc[1] = "failed"
  /\ permissionError
  /\ ~isLoading
  /\ frame = 0

\* C20: a frame whose detector call throws, is skipped, or returns no hand
\* is handled as a frame without hands: the cursor is inactive, an open
\* drag is released with a pointer-up and closed, mode follows the idle
\* timeout rule, and the next frame is scheduled.
C20_DetectionFailureIsNoHands ==
  (detect \in {"threw", "skipped"} \/ (detect = "returned" /\ results = <<>>)) =>
    /\ frame > 0
    /\ loop = "running"
    /\ ~cursor.active
    /\ ~isDraggingUI
    /\ dragTarget = Null
    /\ events = IF prev.isDraggingUI
                  THEN <<Event("pointerup", prev.dragTarget, FALSE)>> ELSE <<>>
    /\ mode = IF now - prev.lastLeftHandTime > 500 THEN "AGGREGATE" ELSE prev.mode

\* C20 witness: the detector throws on a frame entered with a drag open;
\* the drag is released and the loop goes on.
C20_Witness ==
  /\ frame > 0
  /\ detect = "threw"
  /\ prev.isDraggingUI
  /\ ~isDraggingUI
  /\ ~cursor.active
  /\ loop = "running"

----------------------------------------------------------------------------
(* Malformed observations and teardown.                                    *)

\* The highest landmark index the classifier of a hand reads: the little
\* fingertip (20) for the Left hand, the index tip (8) for the Right hand.
RequiredIndex(label) == IF label = "Left" THEN 20 ELSE 8

\* The latest frame was processed and one of its hands lacks a landmark
\* its classifier reads.
ShortHandSeen ==
  /\ frame > 0 /\ detect = "returned"
  /\ \E i \in 1..Len(results) :
       ~Has(results[i].landmarks, RequiredIndex(results[i].handedness))

\* C21: a hand observation whose required landmark indices are out of range
\* is treated as no gesture: the smoothers, the pinching state, the anchor,
\* the mode, the scroll offset and the drag session are as before the frame,
\* no error leaves the frame callback and the next frame is scheduled.
C21_ShortHandIsNoGesture ==
  ShortHandSeen =>
    /\ ~escaped
    /\ loop = "running"
    /\ leftPinchSmoother = prev.leftPinchSmoother
    /\ leftOpenPalmSmoother = prev.leftOpenPalmSmoother
    /\ leftHandX_EMA = prev.leftHandX_EMA
    /\ mode = prev.mode
    /\ scrollOffset = prev.scrollOffset

\* C22: after teardown the frame loop is stopped (no frame callback is left
\* pending) and no drag session is open.
C22_TeardownStopsAndReleases ==
  ~mounted => /\ loop # "running"
              /\ ~isDraggingUI
              /\ dragTarget = Null

----------------------------------------------------------------------------
(* What the dispatcher tracks between frames.                              *)

\* The element under the cursor, while a Right hand is observed.
UnderCursor == IF cursor.active THEN ElementFromPoint(cursor.x, cursor.y) ELSE Null

\* No drag target remains tracked once the press has ended.
DragTargetCleared == ~cursor.clicking => (dragTarget = Null /\ ~isDraggingUI)

\* C23: the tracked hovered element and the drag target are cleared when
\* their owning condition ends: with no element under the cursor, or with the
\* cursor inactive, no hovered element is tracked; with the press ended no
\* drag target is tracked.
C23_NoStaleTracking ==
  /\ UnderCursor = Null => lastHoveredElement = Null
  /\ DragTargetCleared

----------------------------------------------------------------------------
(* Runs of left-hand frames.                                               *)

C24_StaysFocus ==
  /\ pinchRun.classified = 6
  /\ prev.mode = "FOCUS"
  /\ mode = "FOCUS"

\* The frame's Left hand shows neither a pinch (thumb-index distance at
\* least 0.05) nor an open palm (fewer than 3 extended fingers).
LeftNeutral ==
  /\ frame > 0
  /\ SawLeft
  /\ ~LeftShowsPinch
  /\ ExtendedCount(LeftLandmarks) < 3

\* The smoother e holds nothing, or at most 0.75: blended with a raw 0 it
\* stays at or below the activation threshold.
Quiet(e) == e.value = <<>> \/ 4 * e.value[1] <= 3 * One

\* C25 as stated: from any state whose mode is AGGREGATE, a Left-hand frame
\* that shows neither a pinch nor an open palm keeps mode AGGREGATE.
C25_Original ==
  (LeftNeutral /\ prev.mode = "AGGREGATE") => mode = "AGGREGATE"

\* C25: from any state whose mode is AGGREGATE and whose pinch and open-palm
\* smoothers hold at most 0.75, a Left-hand frame that shows neither a pinch
\* nor an open palm keeps mode AGGREGATE and leaves both smoothers at most at
\* 0.75, so that every further frame of such a run keeps AGGREGATE too.
C25_NeutralKeepsAggregate ==
  (LeftNeutral /\ prev.mode = "AGGREGATE"
     /\ Quiet(prev.leftPinchSmoother) /\ Quiet(prev.leftOpenPalmSmoother)) =>
    /\ mode = "AGGREGATE"
    /\ Quiet(leftPinchSmoother)
    /\ Quiet(leftOpenPalmSmoother)

\* C25 witness: a neutral frame, classified, entered in AGGREGATE with the
\* pinch smoother still above the release threshold 0.4.
C25_Witness ==
  /\ LeftNeutral
  /\ LeftClassified
  /\ prev.mode = "AGGREGATE"
  /\ Quiet(prev.leftPinchSmoother)
  /\ prev.leftPinchSmoother.value # <<>>
  /\ 10 * prev.leftPinchSmoother.value[1] > 4 * One
  /\ leftPinchSmoother.value # prev.leftPinchSmoother.value
  /\ mode = "AGGREGATE"

----------------------------------------------------------------------------
(* The EMA class.                                                          *)

\* C26: update(x) returns x when the instance holds no value, otherwise
\* alpha * x + (1 - alpha) * previous, and the returned value is the stored
\* value; after reset() the instance holds no value, so the next update
\* returns its input; no call changes alpha.
C26_EMAContract ==
  [][ /\ ema'.alphaNum = ema.alphaNum
      /\ ema'.alphaDen = ema.alphaDen
      /\ emaCall'.method = "update" =>
           /\ ema'.value = <<emaCall'.returned>>
           /\ ema.value = <<>> => emaCall'.returned = emaCall'.arg
           /\ ema.value # <<>> =>
                ema.alphaDen * emaCall'.returned
                  = ema.alphaNum * emaCall'.arg
                      + (ema.alphaDen - ema.alphaNum) * ema.value[1]
           /\ emaCall.method = "reset" => emaCall'.returned = emaCall'.arg
      /\ emaCall'.method = "reset" => ema'.value = <<>> ]_<<ema, emaCall>>

\* C26 witness: an instance that held a blended value was reset, and the
\* update after the reset returned its input, 0.5, verbatim.
C26_Witness ==
  /\ emaCall.method = "update"
  /\ emaCall.n = 4
  /\ emaCall.arg = One \div 2
  /\ emaCall.returned = One \div 2
  /\ ema.value = <<One \div 2>>
  /\ ema.alphaNum = 1 /\ ema.alphaDen = 10

\* An update blended 1 into a stored 0.5 with alpha 0.2 and returned 0.6.
C26_Blend ==
  /\ emaCall.method = "update"
  /\ emaCall.arg = One
  /\ ema.alphaDen = 5
  /\ 10 * emaCall.returned = 6 * One

----------------------------------------------------------------------------
(* The order of the events of a frame.                                     *)

\* The leave and enter events among es, in order.
LeaveEnter(es) ==
  SelectSeq(es, LAMBDA e :
    e.type \in {"mouseout", "pointerout", "mouseover", "pointerover"})

\* The click-edge events among es, in order: press, drag move, release.
ClickEdge(es) ==
  SelectSeq(es, LAMBDA e :
    \/ e.type \in {"pointerdown", "mousedown", "pointerup", "mouseup", "click"}
    \/ (e.type = "pointermove" /\ e.primary))

\* The moves on the element under the cursor among es, in order.
HoverMoves(es) == SelectSeq(es, LAMBDA e : e.type = "pointermove" /\ ~e.primary)

\* C27: in every frame with a Right hand the events are dispatched in the
\* order hover leave / enter (only if the hovered element changed), move on
\* the element under the cursor, click-edge events (press, drag move or
\* release); on a rising-edge frame the press goes to the element resolved
\* for the hover in that frame.
C27_DispatchOrder ==
  (frame > 0 /\ SawRight) =>
    LET el == ElementFromPoint(cursor.x, cursor.y)
    IN /\ events = LeaveEnter(events) \o HoverMoves(events) \o ClickEdge(events)
       /\ el = prev.lastHoveredElement => LeaveEnter(events) = <<>>
       /\ HoverMoves(events) = IF el # Null THEN <<Event("pointermove", el, FALSE)>>
                                            ELSE <<>>
       /\ (~prev.isPinchingRef /\ isPinchingRef /\ el # Null) =>
            /\ lastHoveredElement = el
            /\ ClickEdge(events) = <<Event("pointerdown", el, TRUE),
                                     Event("mousedown", el, FALSE)>>

\* C27 witness: a rising edge on a frame that moved the cursor from the
\* slider to the month button: leave, enter, move, press, in that order.
C27_Witness ==
  /\ frame > 0
  /\ SawRight
  /\ ~prev.isPinchingRef
  /\ isPinchingRef
  /\ events = <<Event("mouseout", "slider", FALSE),
                Event("pointerout", "slider", FALSE),
                Event("mouseover", "month-button", FALSE),
                Event("pointerover", "month-button", FALSE),
                Event("pointermove", "month-button", FALSE),
                Event("pointerdown", "month-button", TRUE),
                Event("mousedown", "month-button", FALSE)>>

\* C28: on a frame with a Right hand, if the element under the cursor
\* differs from the tracked hovered element, the old element (if any)
\* receives mouseout, pointerout before the new element (if any) receives
\* mouseover, pointerover, and the new value, empty included, becomes the
\* tracked hovered element; if the two are equal no leave or enter event is
\* dispatched.
C28_HoverLeaveEnter ==
  (frame > 0 /\ SawRight) =>
    LET el == ElementFromPoint(cursor.x, cursor.y)
        old == prev.lastHoveredElement
        leave == IF old # Null
                   THEN <<Event("mouseout", old, FALSE), Event("pointerout", old, FALSE)>>
                   ELSE <<>>
        enter == IF el # Null
                   THEN <<Event("mouseover", el, FALSE), Event("pointerover", el, FALSE)>>
                   ELSE <<>>
    IN /\ lastHoveredElement = el
       /\ LeaveEnter(events) = IF el # old THEN leave \o enter ELSE <<>>

\* C28 witness: the cursor leaves the viewport from the month button; the
\* button receives its leave pair and nothing is tracked as hovered.
C28_Witness ==
  /\ frame > 0
  /\ SawRight
  /\ prev.lastHoveredElement = "month-button"
  /\ ElementFromPoint(cursor.x, cursor.y) = Null
  /\ lastHoveredElement = Null
  /\ LeaveEnter(events) = <<Event("mouseout", "month-button", FALSE),
                            Event("pointerout", "month-button", FALSE)>>

----------------------------------------------------------------------------
(* A drag target that leaves the document.                                 *)

\* C29: on a frame entered with a drag session whose target was removed
\* from the document, nothing is raised; while the Right hand still pinches
\* the drag move is dispatched to the removed target and the session stays
\* on it, and on the pinch falling edge pointer-up, mouse-up and click are
\* sent to the removed target and the session is closed.
C29_RemovedDragTarget ==
  (frame > 0 /\ SawRight /\ ~ShortHandSeen
     /\ prev.isDraggingUI /\ prev.dragTarget \in prev.removed) =>
    LET E == prev.dragTarget
    IN /\ ~escaped
       /\ isPinchingRef =>
            /\ ClickEdge(events) = <<Event("pointermove", E, TRUE)>>
            /\ isDraggingUI
            /\ dragTarget = E
       /\ ~isPinchingRef =>
            /\ ClickEdge(events) = <<Event("pointerup", E, TRUE),
                                     Event("mouseup", E, FALSE),
                                     Event("click", E, FALSE)>>
            /\ ~isDraggingUI
            /\ dragTarget = Null

\* C29 witness: the month button was removed while it was held; the pinch
\* ends, the button receives the release sequence and the session is closed.
C29_Witness ==
  /\ frame > 0
  /\ SawRight
  /\ prev.isDraggingUI
  /\ prev.dragTarget = "month-button"
  /\ "month-button" \in prev.removed
  /\ ~isPinchingRef
  /\ events # <<>>
  /\ events[Len(events)] = Event("click", "month-button", FALSE)
  /\ dragTarget = Null
  /\ lastHoveredElement = Null

\* The removed month button is held for one more frame and receives the
\* drag move.
C29_Held ==
  /\ frame > 0
  /\ SawRight
  /\ prev.dragTarget = "month-button"
  /\ "month-button" \in prev.removed
  /\ isDraggingUI
  /\ events # <<>>
  /\ events[Len(events)] = Event("pointermove", "month-button", TRUE)

----------------------------------------------------------------------------
(* Smoothers across a dropout.                                             *)

\* C30: a frame without a Left hand, the frame of the idle timeout
\* included, leaves the three Left smoothers as they were, and a frame
\* without a Right hand, the frame of the forced drag release included,
\* leaves the two cursor smoothers as they were; hence an observation that
\* follows a dropout is blended with the value held before the dropout: the
\* pinch smoother with alpha 0.2 when the Left hand is classified, the
\* cursor smoothers with alpha 0.5.
C30_SmoothersSurviveDropout ==
  frame > 0 =>
    /\ ~SawLeft =>
         /\ leftPinchSmoother = prev.leftPinchSmoother
         /\ leftOpenPalmSmoother = prev.leftOpenPalmSmoother
         /\ leftHandX_EMA = prev.leftHandX_EMA
    /\ ~SawRight =>
         /\ cursorX_EMA = prev.cursorX_EMA
         /\ cursorY_EMA = prev.cursorY_EMA
    /\ (LeftClassified /\ prev.leftPinchSmoother.value # <<>>) =>
         5 * leftPinchSmoother.value[1]
           = (IF LeftShowsPinch THEN One ELSE 0) + 4 * prev.leftPinchSmoother.value[1]
    /\ (SawRight /\ prev.cursorX_EMA.value # <<>>) =>
         /\ 2 * cursorX_EMA.value[1] = RawX(RightLandmarks) + prev.cursorX_EMA.value[1]
         /\ 2 * cursorY_EMA.value[1] = RawY(RightLandmarks) + prev.cursorY_EMA.value[1]

\* C30 witness: the Left hand comes back, not pinching, after a dropout that
\* triggered the idle timeout; the pinch smoother, at 1 before the dropout,
\* is blended to 0.8.
C30_Witness ==
  /\ LeftClassified
  /\ ~LeftShowsPinch
  /\ now - prev.lastLeftHandTime > 500
  /\ prev.mode = "AGGREGATE"
  /\ prev.leftPinchSmoother.value = <<One>>
  /\ 10 * leftPinchSmoother.value[1] = 8 * One

\* The Right hand comes back over the slider after a frame that forced the
\* release of a drag on the month button; the cursor smoother is blended.
C30_RightBlended ==
  /\ frame > 0
  /\ SawRight
  /\ ~prev.cursor.active
  /\ prev.cursorX_EMA.value # <<>>
  /\ cursorX_EMA.value[1] # RawX(RightLandmarks)
  /\ cursorX_EMA.value[1] # prev.cursorX_EMA.value[1]

----------------------------------------------------------------------------
(* The drag session over the frames.                                       *)

\* The pointer-down events among es, in order.
PointerDowns(es) == SelectSeq(es, LAMBDA e : e.type = "pointerdown")

\* C31: at most one drag session exists at any time: a frame dispatches a
\* pointer-down only if no drag target was held on entry, and at most one;
\* a held drag target is the target of the most recent pointer-down, and it
\* is the only element with a press that was not released.
C31_OneDragSession ==
  /\ frame > 0 =>
       /\ Len(PointerDowns(events)) <= 1
       /\ PointerDowns(events) # <<>> => (prev.dragTarget = Null /\ ~prev.isDraggingUI)
  /\ dragTarget # Null =>
       /\ dragTarget = pointer.last
       /\ pointer.down = {dragTarget}
  /\ dragTarget = Null => pointer.down = {}

\* C31 witness: a second session, on the slider, after a first one on the
\* month button was closed; the slider is the held target.
C31_Witness ==
  /\ pointer.presses = 2
  /\ prev.dragTarget = Null
  /\ PointerDowns(events) = <<Event("pointerdown", "slider", TRUE)>>
  /\ dragTarget = "slider"
  /\ pointer.down = {"slider"}

----------------------------------------------------------------------------
(* The EMA under a constant input.                                         *)

Abs(x) == IF x < 0 THEN -x ELSE x

\* C32: an update of an EMA that holds a value v, fed c, returns a value
\* between v and c, ends included: it is no farther from c than v was and
\* does not pass c; hence under a constant input the output moves
\* monotonically toward the input.  With alpha = 1 the update returns c.
C32_MonotoneTowardInput ==
  [][ (emaCall'.method = "update" /\ ema.value # <<>>) =>
        LET v == ema.value[1]
            c == emaCall'.arg
            r == emaCall'.returned
        IN /\ Abs(r - c) <= Abs(v - c)
           /\ v <= c => (v <= r /\ r <= c)
           /\ v >= c => (c <= r /\ r <= v)
           /\ ema.alphaNum = ema.alphaDen => r = c ]_<<ema, emaCall>>

\* C32 witness: an EMA with alpha 0.5 that held 0 was fed 1 three times in
\* a row and stands at 0.875.
C32_Witness ==
  /\ emaCall.method = "update"
  /\ emaCall.run = 3
  /\ emaCall.arg = One
  /\ ema.alphaDen = 2
  /\ 8 * emaCall.returned = 7 * One

\* An EMA with alpha 1 that held 0 was fed 0.5 and returned it.
C32_AlphaOne ==
  /\ emaCall.method = "update"
  /\ emaCall.n = 2
  /\ ema.alphaNum = ema.alphaDen
  /\ emaCall.arg = One \div 2
  /\ ema.value = <<One \div 2>>

----------------------------------------------------------------------------
(* The focused item.                                                       *)

\* C33: for every scrollOffset (positive, negative, more than a turn) and
\* every non-empty item list of length n, the wrapped index lies in 0..n-1
\* and focusedId is the id of the item at that index of the current list;
\* with an empty list focusedId is null.
C33_FocusedIndexInRange ==
  LET n == Len(filteredItems)
  IN IF n = 0 THEN focusedId = Null
     ELSE LET w == WrappedIndex(RawIndex(scrollOffset, n), n)
          IN /\ w \in 0..(n - 1)
             /\ \E i \in 1..n : i = w + 1 /\ filteredItems[i] = focusedId

\* C33 witness: with 3 items and scrollOffset at 9.5 (a turn and a half),
\* the raw index is -5 and the focused item is the second one.
C33_Witness ==
  /\ Len(filteredItems) = 3
  /\ scrollOffset = 9500 * MilliRad
  /\ RawIndex(scrollOffset, 3) = -5
  /\ focusedId = filteredItems[2]

\* With 5 items and scrollOffset at -10 the raw index is 8, more than a
\* turn, and the focused item is the fourth one.
C33_NegativeOffset ==
  /\ Len(filteredItems) = 5
  /\ scrollOffset = -10000 * MilliRad
  /\ RawIndex(scrollOffset, 5) = 8
  /\ focusedId = filteredItems[4]

----------------------------------------------------------------------------
(* Invariants of the right-hand state.                                     *)

\* C34: after every frame the dragging flag is true exactly when a drag
\* target is held, and an open drag session implies that the right-hand
\* pinching state is true.
C34_DragFlagAndTarget ==
  /\ isDraggingUI <=> dragTarget # Null
  /\ isDraggingUI => isPinchingRef

\* C34 witness: the frame that ends the pinch closes the session: flag and
\* target are cleared together.
C34_Witness ==
  /\ frame > 0
  /\ SawRight
  /\ prev.isDraggingUI
  /\ prev.dragTarget # Null
  /\ prev.isPinchingRef
  /\ ~isPinchingRef
  /\ ~isDraggingUI
  /\ dragTarget = Null

\* C35: after every frame the Anchor is set if and only if the right-hand
\* pinching state is true, and a frame without a Right hand changes neither
\* of the two.
C35_AnchorIffPinching ==
  /\ anchorPos # <<>> <=> isPinchingRef
  /\ (frame > 0 /\ ~SawRight) =>
       /\ anchorPos = prev.anchorPos
       /\ isPinchingRef = prev.isPinchingRef

\* C35 witness: a frame without any hand, entered in a pinch, leaves the
\* pinching state true and the Anchor in place while the drag is released.
C35_Witness ==
  /\ frame > 0
  /\ results = <<>>
  /\ prev.isPinchingRef
  /\ prev.isDraggingUI
  /\ ~isDraggingUI
  /\ isPinchingRef
  /\ anchorPos # <<>>
  /\ anchorPos = prev.anchorPos

----------------------------------------------------------------------------
(* The Left hand under an open drag session.                               *)

\* C36: a Left hand observed while a drag session is open (open when the
\* Left hand's turn comes in the frame) changes nothing in the left-hand
\* state: mode, scrollOffset and the three left-hand smoothers keep their
\* values; the frame still counts as a Left observation: the last-seen
\* timestamp is the frame's clock.
C36_GatedLeftHand ==
  (frame > 0 /\ SawLeft /\ ~LeftClassified) =>
    /\ mode = prev.mode
    /\ scrollOffset = prev.scrollOffset
    /\ leftPinchSmoother = prev.leftPinchSmoother
    /\ leftOpenPalmSmoother = prev.leftOpenPalmSmoother
    /\ leftHandX_EMA = prev.leftHandX_EMA
    /\ lastLeftHandTime = now
    /\ leftSeenAt = <<now>>

\* C36 witness: a pinching Left hand is observed with the Right hand holding
\* a drag; mode is not FOCUS, the pinch smoother is untouched and the
\* timestamp moved.
C36_Witness ==
  /\ frame > 0
  /\ SawLeft
  /\ SawRight
  /\ LeftShowsPinch
  /\ ~LeftClassified
  /\ isDraggingUI
  /\ mode # "FOCUS"
  /\ leftPinchSmoother = prev.leftPinchSmoother
  /\ prev.lastLeftHandTime < now
  /\ lastLeftHandTime = now

----------------------------------------------------------------------------
(* Press and release over the frames.                                      *)

\* C37: press and release events are balanced per element over every
\* sequence of frames: every pointer-up went to an element that had received
\* a pointer-down and no pointer-up since (so a pointer-down is followed by
\* at most one pointer-up), and every mouse-up and click went to the element
\* that had just received that pointer-up, as part of the same release.
C37_BalancedPressRelease ==
  /\ pointer.balanced
  /\ frame > 0 =>
       \A i \in 1..Len(events) :
         events[i].type \in {"pointerup", "mouseup", "click"} =>
           /\ events[i].target = prev.dragTarget
           /\ events[i].target = pointer.last

\* C37 witness: the month button was pressed and released twice; the second
\* release has just ended with its click and no press is outstanding.
C37_Witness ==
  /\ frame > 0
  /\ pointer.presses = 2
  /\ pointer.down = {}
  /\ pointer.balanced
  /\ events # <<>>
  /\ events[Len(events)] = Event("click", "month-button", FALSE)

----------------------------------------------------------------------------
(* The right-hand pinch across a disappearance of the hand.                *)

\* C38: the right-hand pinching state survives the hand's disappearance. A
\* frame without a Right hand keeps the pinching state and the Anchor; when
\* the hand is back after such a frame with the pinch still on, the frame
\* dispatches no press or release event, opens no drag session, and, if the
\* distance is not above OFF, stays pinching with the Anchor taken before
\* the disappearance blended into the reported position; the frame that
\* later ends a pinch with no drag session open dispatches no pointer-up,
\* mouse-up or click.
C38_PinchSurvivesDisappearance ==
  /\ (frame > 0 /\ ~SawRight) =>
       /\ isPinchingRef = prev.isPinchingRef
       /\ anchorPos = prev.anchorPos
  /\ (frame > 0 /\ SawRight /\ prev.isPinchingRef /\ ~prev.cursor.active) =>
       /\ PressRelease(events) = <<>>
       /\ ~isDraggingUI
       /\ dragTarget = Null
       /\ RightPinchDistSq <= PINCH_THRESHOLD_OFF * PINCH_THRESHOLD_OFF =>
            /\ isPinchingRef
            /\ anchorPos # <<>>
            /\ anchorPos = prev.anchorPos
            /\ 20 * cursor.x = 19 * anchorPos[1].x + cursorX_EMA.value[1]
            /\ 20 * cursor.y = 19 * anchorPos[1].y + cursorY_EMA.value[1]
  /\ (frame > 0 /\ SawRight /\ prev.isPinchingRef /\ ~prev.isDraggingUI
         /\ ~isPinchingRef) =>
       /\ PressRelease(events) = <<>>
       /\ anchorPos = <<>>

\* C38 witness: the Right hand is back, still pinching, after a frame
\* without it; no press fires and the Anchor is the one taken before.
C38_Witness ==
  /\ frame > 0
  /\ SawRight
  /\ prev.isPinchingRef
  /\ ~prev.cursor.active
  /\ RightPinchDistSq <= PINCH_THRESHOLD_OFF * PINCH_THRESHOLD_OFF
  /\ isPinchingRef
  /\ PressRelease(events) = <<>>
  /\ anchorPos # <<>>
  /\ anchorPos = prev.anchorPos
  /\ ~isDraggingUI

\* The later release of the pinch that survived: the session it had opened
\* over the month button was closed by the disappearance, and the release
\* dispatches nothing.
C38_SilentRelease ==
  /\ frame > 0
  /\ SawRight
  /\ prev.isPinchingRef
  /\ ~prev.isDraggingUI
  /\ prev.cursor.active
  /\ pointer.presses = 1
  /\ pointer.last = "month-button"
  /\ ~isPinchingRef
  /\ PressRelease(events) = <<>>

----------------------------------------------------------------------------
(* The mode through a brief dropout of the Left hand.                      *)

\* C39: while at most 500 ms have elapsed since the last frame with a Left
\* observation, a frame without a Left observation leaves the mode
\* unchanged: FOCUS and BROWSE persist through a brief dropout.
C39_ModePersistsThroughDropout ==
  (frame > 0 /\ ~SawLeft /\ leftSeenAt # <<>>
     /\ now - leftSeenAt[1] <= IDLE_TIMEOUT_MS) =>
    /\ mode = prev.mode
    /\ lastLeftHandTime = leftSeenAt[1]

\* C39 witness: exactly 500 ms after the last Left observation a frame
\* without a Left hand keeps a mode other than AGGREGATE.
C39_Witness ==
  /\ frame > 0
  /\ ~SawLeft
  /\ leftSeenAt # <<>>
  /\ now - leftSeenAt[1] = IDLE_TIMEOUT_MS
  /\ prev.mode \in {"FOCUS", "BROWSE"}
  /\ mode = prev.mode

\* The same dropout with the mode BROWSE.
C39_BrowseKept ==
  /\ frame > 0
  /\ ~SawLeft
  /\ leftSeenAt # <<>>
  /\ now - leftSeenAt[1] <= IDLE_TIMEOUT_MS
  /\ prev.mode = "BROWSE"
  /\ mode = "BROWSE"

\* The same dropout with the mode FOCUS.
C39_FocusKept ==
  /\ frame > 0
  /\ ~SawLeft
  /\ leftSeenAt # <<>>
  /\ now - leftSeenAt[1] <= IDLE_TIMEOUT_MS
  /\ prev.mode = "FOCUS"
  /\ mode = "FOCUS"

====
